---- MODULE Spec2Model ----
(***************************************************************************)
(* Hybrid retrieval engine of the ChatBot repository:                      *)
(*   src/src/features/chat/retrieval.py                                    *)
(* RetrievalService.search (vector similarity + BM25 keyword scores fused  *)
(* by Reciprocal Rank Fusion) and RetrievalService.build_context.          *)
(*                                                                         *)
(* Floats are held in fixed point: a similarity s is the integer           *)
(* floor(s * Scale); a fused score 1/(k+r) is the integer RRFScale/(k+r),  *)
(* which is exact because RRFScale is a multiple of every k+r that occurs. *)
(***************************************************************************)
EXTENDS Integers, Sequences, FiniteSets, TLC

VARIABLES
    HAS_BM25,         \* retrieval.py:13-18, set once at import
    chunks,           \* search: chunks, what get_all_chunks returned
    pc,               \* outcome of the last search call: "idle", "returned", "raised"
    query_embedding,  \* search: query_embedding
    min_score,        \* search: min_score
    top_k,            \* search: top_k
    bm25_scores,      \* what BM25Okapi.get_scores gave, by chunk id
    scored_chunks,    \* search: scored_chunks, as left when search ends
    vector_ranked,    \* _hybrid_rrf_search: vector_ranked (positions in scored_chunks)
    bm25_ranked,      \* _hybrid_rrf_search: bm25_ranked
    results,          \* search: results after the sort and the pops
    returned,         \* search: the value returned, results[:top_k]
    ctx_chunks,       \* build_context: chunks
    max_tokens,       \* build_context: max_tokens
    ctx_pc,           \* "idle" or "built"
    context_parts,    \* build_context: context_parts
    context,          \* build_context: the string returned, as characters
    ck_strategy,      \* get_chunking_strategy: strategy
    ck_size,          \* get_chunking_strategy: chunk_size
    ck_overlap,       \* get_chunking_strategy: chunk_overlap
    ck_text,          \* chunk: text, as characters
    ck_pc,            \* outcome of the chunk call: "idle", "done", "raised"
    ck_class,         \* the strategy class get_chunking_strategy built
    ck_chunks,        \* chunk: the list returned
    store,            \* the chunk records held by the chunk store
    s_pc,             \* per chat call: where the call stands
    s_query,          \* per chat call: message
    s_scope,          \* per chat call: document_ids
    s_qe,             \* per call frame: query_embedding
    s_bm,             \* per chat call: what BM25Okapi.get_scores gave
    s_fetched,        \* per chat call: the dicts get_all_chunks gave, after the call
    s_returned,       \* per chat call: what search returned
    s_context,        \* per chat call: what build_context returned
    s_failure,        \* per chat call: what raised inside search, "none" if nothing
    s_issued,         \* per chat call: calls search made to the provider and the store
    s_done,           \* per chat call: those of them that returned
    documents,        \* per document id: status of its record, "absent" if none
    ing_pc,           \* per document: where its ingestion stands
    ing_chunks,       \* per document: the chunks its ingestion prepared
    del_pc,           \* per document: where delete_document stands
    del_seen,         \* per document: the chunks delete_document streamed
    chunk_count,      \* per document id: chunk_count of its record
    tok_text,         \* _tokenize: text, as characters
    tok_calls,        \* how many times _tokenize ran on tok_text
    tok_first,        \* what the first call returned
    tok_out,          \* what the latest call returned
    conversations,    \* the conversations collection: the session_id of each record
    messages,         \* the messages written, each under its conversation_id
    cv_pc,            \* per chat request: where it stands with the conversation
    cv_session,       \* per chat request: session_id
    cv_conversation   \* per chat request: conversation["id"], 0 before it has one

vars == <<HAS_BM25, chunks, pc, query_embedding, min_score, top_k, bm25_scores,
          scored_chunks, vector_ranked, bm25_ranked, results, returned,
          ctx_chunks, max_tokens, ctx_pc, context_parts, context,
          ck_strategy, ck_size, ck_overlap, ck_text, ck_pc, ck_class, ck_chunks,
          store, s_pc, s_query, s_scope, s_qe, s_bm, s_fetched, s_returned,
          s_context, s_failure, s_issued, s_done,
          documents, ing_pc, ing_chunks, del_pc, del_seen, chunk_count,
          tok_text, tok_calls, tok_first, tok_out,
          conversations, messages, cv_pc, cv_session, cv_conversation>>

searchVars == <<HAS_BM25, chunks, pc, query_embedding, min_score, top_k,
                bm25_scores, scored_chunks, vector_ranked, bm25_ranked,
                results, returned>>

ctxVars == <<ctx_chunks, max_tokens, ctx_pc, context_parts, context>>

chunkVars == <<ck_strategy, ck_size, ck_overlap, ck_text, ck_pc, ck_class, ck_chunks>>

callVars == <<s_pc, s_query, s_scope, s_qe, s_bm, s_fetched, s_returned,
              s_context, s_failure, s_issued, s_done>>

chatVars == <<store, callVars>>

docVars == <<documents, ing_pc, ing_chunks, del_pc, del_seen, chunk_count>>

tokVars == <<tok_text, tok_calls, tok_first, tok_out>>

convVars == <<conversations, messages, cv_pc, cv_session, cv_conversation>>

-----------------------------------------------------------------------------
(* Bounds *)

MaxChunks == 3
MaxBM25 == 1
MaxTopK == 2
MaxCtxChunks == 3
MaxTextLen == 5
MaxChunkIndex == 1
MaxTokens == 2
MaxPieces == 5
MaxStoreChunks == 2
MaxDocChunks == 2
MaxTokChars == 5
MaxTokCalls == 2
MaxChats == 2

-----------------------------------------------------------------------------
(* Fixed point *)

Scale == 100

NaN == -1000000

\* Python float comparisons: every comparison with NaN is False.
Lt(a, b) == a # NaN /\ b # NaN /\ a < b

Ge(a, b) == a # NaN /\ b # NaN /\ a >= b

Gt(a, b) == a # NaN /\ b # NaN /\ a > b

RECURSIVE IsqrtIter(_, _, _)
IsqrtIter(n, lo, hi) ==
    IF lo >= hi THEN lo
    ELSE LET mid == (lo + hi + 1) \div 2
         IN  IF mid <= n \div mid THEN IsqrtIter(n, mid, hi)
                                  ELSE IsqrtIter(n, lo, mid - 1)

Isqrt(n) == IsqrtIter(n, 0, n)

RECURSIVE Dot(_, _)
Dot(a, b) ==
    IF a = <<>> THEN 0 ELSE a[1] * b[1] + Dot(Tail(a), Tail(b))

\* np.linalg.norm, in units of 1/Scale
Norm(a) == Isqrt(Dot(a, a) * Scale * Scale)

\* The outcome of cosine_similarity(a, b): "raise" when np.dot rejects the
\* shapes, else the float, NaN for 0/0.
DimMismatch(a, b) == Len(a) # Len(b)

cosine_similarity(a, b) ==
    IF Norm(a) * Norm(b) = 0 THEN NaN
    ELSE (Dot(a, b) * Scale * Scale * Scale) \div (Norm(a) * Norm(b))

-----------------------------------------------------------------------------
(* list.sort / sorted of CPython for lists shorter than 64: count_run then  *)
(* binary insertion, using only "<" on the keys; reverse=True reverses the  *)
(* list before and after, which keeps equal keys in their original order.   *)

Reverse(s) == [i \in 1..Len(s) |-> s[Len(s) + 1 - i]]

\* length of the run starting at s[1]; desc tells whether it is descending
RECURSIVE RunLen(_, _, _, _)
RunLen(s, key, desc, r) ==
    IF r >= Len(s) THEN r
    ELSE IF Lt(key[s[r + 1]], key[s[r]]) = desc THEN RunLen(s, key, desc, r + 1)
    ELSE r

RECURSIVE BinSearch(_, _, _, _, _)
BinSearch(s, key, pivot, l, r) ==
    IF l >= r THEN l
    ELSE LET p == l + (r - l) \div 2
         IN  IF Lt(key[pivot], key[s[p]]) THEN BinSearch(s, key, pivot, l, p)
                                          ELSE BinSearch(s, key, pivot, p + 1, r)

InsertAt(s, pos, x) ==
    [i \in 1..(Len(s) + 1) |->
        IF i < pos THEN s[i] ELSE IF i = pos THEN x ELSE s[i - 1]]

\* s[1..start-1] is sorted; insert s[start..] one by one
RECURSIVE BinarySort(_, _, _)
BinarySort(s, key, start) ==
    IF start > Len(s) THEN s
    ELSE LET pivot == s[start]
             head  == SubSeq(s, 1, start - 1)
             pos   == BinSearch(head, key, pivot, 1, start)
             merged == InsertAt(head, pos, pivot) \o SubSeq(s, start + 1, Len(s))
         IN  BinarySort(merged, key, start + 1)

\* ascending stable sort of the items s by key[item]
SortAsc(s, key) ==
    IF Len(s) < 2 THEN s
    ELSE LET desc == Lt(key[s[2]], key[s[1]])
             n    == RunLen(s, key, desc, 2)
             run  == SubSeq(s, 1, n)
             s1   == (IF desc THEN Reverse(run) ELSE run) \o SubSeq(s, n + 1, Len(s))
         IN  BinarySort(s1, key, n + 1)

\* sorting ascending and reversing the outcome: equal keys come out in
\* reverse order
SortedReverse_Unstable(s, key) == Reverse(SortAsc(s, key))

\* sorted(s, key=..., reverse=True)
SortedReverse(s, key) == Reverse(SortAsc(Reverse(s), key))

-----------------------------------------------------------------------------
(* Inputs of a search call *)

\* embeddings a stored chunk can carry: empty, zero magnitude (the fallback
\* of generate_embeddings_batch), orthogonal to the query, at several angles
\* to it, and of another dimensionality
Embeddings ==
    {<<>>, <<0, 0>>, <<0, 1>>, <<1, 0>>, <<1, 1>>, <<1, 2>>, <<1, 0, 0>>}

QueryEmbeddings == {<<1, 0>>}

MinScores == {0, Scale \div 2}

EmbeddingChoices ==
    {[present |-> FALSE, value |-> <<>>]}
        \cup {[present |-> TRUE, value |-> v] : v \in Embeddings}

\* the record create_chunks writes; the chunk at stream position i
ChunkRecord(i, e) ==
    LET base == [id |-> i, document_id |-> 1, text |-> <<"x">>,
                 chunk_index |-> i - 1, page_number |-> 0]
    IN  IF e.present
        THEN [f \in DOMAIN base \cup {"embedding"} |->
                 IF f = "embedding" THEN e.value ELSE base[f]]
        ELSE base

\* what get_all_chunks can return
CandidateLists ==
    UNION {{[i \in 1..n |-> ChunkRecord(i, es[i])] : es \in [1..n -> EmbeddingChoices]}
              : n \in 0..MaxChunks}

-----------------------------------------------------------------------------
(* RetrievalService.search *)

K == 60

KeywordFloor == Scale \div 5

RECURSIVE RankProduct(_)
RankProduct(n) == IF n = 0 THEN 1 ELSE (K + n) * RankProduct(n - 1)

\* a common multiple of K+1 .. K+MaxChunks
RRFScale == RankProduct(MaxChunks)

\* 1.0 * (k + rank + 1)
Reciprocal_Product(rank) == K + rank + 1

\* 1.0 / (k + rank + 1), rank counted from 0
Reciprocal(rank) == RRFScale \div (K + rank + 1)

\* only the absent key is tested
Unembedded_AbsentOnly(c) == "embedding" \notin DOMAIN c

\* line 89: the chunk is scored unless this holds
Unembedded(c) == "embedding" \notin DOMAIN c \/ c.embedding = <<>>

WithField(r, name, v) ==
    [f \in DOMAIN r \cup {name} |-> IF f = name THEN v ELSE r[f]]

WithoutFields(r, names) == [f \in DOMAIN r \ names |-> r[f]]

RECURSIVE Filter(_, _)
Filter(s, keep) ==
    IF s = <<>> THEN <<>>
    ELSE (IF keep[1] THEN <<Head(s)>> ELSE <<>>)
            \o Filter(Tail(s), Tail(keep))

\* lines 86-102: does the scoring loop raise (np.dot on unequal shapes)
ScoringRaises(cs, qe) ==
    \E i \in 1..Len(cs) :
        ~Unembedded(cs[i]) /\ DimMismatch(qe, cs[i].embedding)

\* lines 86-102: scored_chunks after the loop
ScoredChunks(cs, qe) ==
    LET embedded == Filter(cs, [i \in 1..Len(cs) |-> ~Unembedded(cs[i])])
    IN  [i \in 1..Len(embedded) |->
            WithField(WithoutFields(embedded[i], {"embedding"}),
                      "vector_score",
                      cosine_similarity(qe, embedded[i].embedding))]

Positions(s) == [i \in 1..Len(s) |-> i]

\* lines 146-155
VectorRanked(sc) ==
    SortedReverse(Positions(sc), [i \in 1..Len(sc) |-> sc[i].vector_score])

Bm25Ranked(sc) ==
    SortedReverse(Positions(sc), [i \in 1..Len(sc) |-> sc[i].bm25_score])

\* the vector contribution alone
RrfScores_VectorPart(sc, vr, br) ==
    [c \in {sc[i].id : i \in 1..Len(sc)} |->
        LET rank == CHOOSE r \in 1..Len(vr) : sc[vr[r]].id = c
        IN  Reciprocal(rank - 1)]

\* lines 158-167: rrf_scores, by chunk id
RrfScores(sc, vr, br) ==
    LET ids == {sc[i].id : i \in 1..Len(sc)}
        vpart == [c \in ids |->
                    LET rank == CHOOSE r \in 1..Len(vr) : sc[vr[r]].id = c
                    IN  Reciprocal(rank - 1)]
    IN  [c \in ids |->
            LET rank == CHOOSE r \in 1..Len(br) : sc[br[r]].id = c
            IN  vpart[c] + Reciprocal(rank - 1)]

\* "not below the threshold", which NaN satisfies
HasVectorMatch_NotLess(c, ms) == ~Lt(c.vector_score, ms)

\* keyword match without the semantic floor
HasKeywordMatch_NoFloor(c) == Gt(c.bm25_score, 0)

\* lines 175-179
HasVectorMatch(c, ms) == Ge(c.vector_score, ms)

HasKeywordMatch(c) == Gt(c.bm25_score, 0) /\ Ge(c.vector_score, KeywordFloor)

Included(c, ms) == HasVectorMatch(c, ms) \/ HasKeywordMatch(c)

\* lines 129-182; bm is the output of bm25.get_scores, by chunk id
hybrid_rrf_search(sc0, bm, ms) ==
    LET sc  == [i \in 1..Len(sc0) |-> WithField(sc0[i], "bm25_score", bm[sc0[i].id])]
        vr  == VectorRanked(sc)
        br  == Bm25Ranked(sc)
        rrf == RrfScores(sc, vr, br)
        all == [i \in 1..Len(sc) |-> WithField(sc[i], "score", rrf[sc[i].id])]
    IN  [scored |-> all, vector_ranked |-> vr, bm25_ranked |-> br,
         results |-> Filter(all, [i \in 1..Len(all) |-> Included(all[i], ms)])]

\* lines 114-118
vector_only(sc, ms) ==
    LET all == [i \in 1..Len(sc) |-> WithField(sc[i], "score", sc[i].vector_score)]
    IN  [scored |-> sc, vector_ranked |-> <<>>, bm25_ranked |-> <<>>,
         results |-> Filter(all, [i \in 1..Len(all) |-> Ge(all[i].vector_score, ms)])]

\* fusion whenever there are two scored chunks, whatever HAS_BM25
UsesHybrid_IgnoreFlag(sc, has) == Len(sc) > 1

\* line 108
UsesHybrid(sc, has) == has /\ Len(sc) > 1

\* line 120
SortByScore(rs) ==
    LET order == SortedReverse(Positions(rs), [i \in 1..Len(rs) |-> rs[i].score])
    IN  [i \in 1..Len(rs) |-> rs[order[i]]]

\* lines 123-125
StripInternal(rs) ==
    [i \in 1..Len(rs) |-> WithoutFields(rs[i], {"vector_score", "bm25_score"})]

\* one entry too many
Slice_OffByOne(rs, k) == SubSeq(rs, 1, IF k + 1 < Len(rs) THEN k + 1 ELSE Len(rs))

\* line 127, top_k >= 0
Slice(rs, k) == SubSeq(rs, 1, IF k < Len(rs) THEN k ELSE Len(rs))

\* the BM25 outputs a call can see: one score per scored chunk when
\* BM25Okapi is used, nothing otherwise
Bm25Outputs(cs, qe, has) ==
    IF cs = <<>> \/ ScoringRaises(cs, qe) THEN {<<>>}
    ELSE LET sc == ScoredChunks(cs, qe)
         IN  IF UsesHybrid(sc, has)
             THEN [{sc[i].id : i \in 1..Len(sc)} -> 0..MaxBM25]
             ELSE {<<>>}

\* lines 55-127, the whole call; the record holds the locals when it ends
search(cs, qe, bm, ms, k, has) ==
    LET none == [raised |-> FALSE, scored |-> <<>>, vector_ranked |-> <<>>,
                 bm25_ranked |-> <<>>, results |-> <<>>, returned |-> <<>>]
    IN  IF cs = <<>> THEN none
        ELSE IF ScoringRaises(cs, qe) THEN [none EXCEPT !.raised = TRUE]
        ELSE LET sc == ScoredChunks(cs, qe)
             IN  IF sc = <<>> THEN none
                 ELSE LET h == IF UsesHybrid(sc, has)
                               THEN hybrid_rrf_search(sc, bm, ms)
                               ELSE vector_only(sc, ms)
                          rs == StripInternal(SortByScore(h.results))
                      IN  [raised |-> FALSE, scored |-> h.scored,
                           vector_ranked |-> h.vector_ranked,
                           bm25_ranked |-> h.bm25_ranked,
                           results |-> rs, returned |-> Slice(rs, k)]

-----------------------------------------------------------------------------
(* The search machine *)

\* no search call made yet
SearchIdle ==
    /\ HAS_BM25 \in BOOLEAN
    /\ chunks = <<>>
    /\ pc = "idle"
    /\ query_embedding = <<>>
    /\ min_score = 0
    /\ top_k = 0
    /\ bm25_scores = <<>>
    /\ scored_chunks = <<>>
    /\ vector_ranked = <<>>
    /\ bm25_ranked = <<>>
    /\ results = <<>>
    /\ returned = <<>>

\* no build_context call made
CtxIdle ==
    /\ ctx_chunks = <<>>
    /\ max_tokens = 0
    /\ ctx_pc = "idle"
    /\ context_parts = <<>>
    /\ context = <<>>

\* no chunk call made
ChunkIdle ==
    /\ ck_strategy = "recursive"
    /\ ck_size = 0
    /\ ck_overlap = 0
    /\ ck_text = <<>>
    /\ ck_pc = "idle"
    /\ ck_class = "none"
    /\ ck_chunks = <<>>

Callers == {1, 2}

NoCalls == [embedding |-> 0, store |-> 0]

\* no chat call made, nothing stored
ChatIdle ==
    /\ store = <<>>
    /\ s_pc = [p \in Callers |-> "idle"]
    /\ s_query = [p \in Callers |-> "none"]
    /\ s_scope = [p \in Callers |-> <<>>]
    /\ s_qe = [p \in Callers |-> <<>>]
    /\ s_bm = [p \in Callers |-> <<>>]
    /\ s_fetched = [p \in Callers |-> <<>>]
    /\ s_returned = [p \in Callers |-> <<>>]
    /\ s_context = [p \in Callers |-> <<>>]
    /\ s_failure = [p \in Callers |-> "none"]
    /\ s_issued = [p \in Callers |-> NoCalls]
    /\ s_done = [p \in Callers |-> NoCalls]

DocIds == {1, 2}

\* nothing uploaded, nothing deleted
DocsIdle ==
    /\ documents = [d \in DocIds |-> "absent"]
    /\ ing_pc = [d \in DocIds |-> "idle"]
    /\ ing_chunks = [d \in DocIds |-> <<>>]
    /\ del_pc = [d \in DocIds |-> "idle"]
    /\ del_seen = [d \in DocIds |-> <<>>]
    /\ chunk_count = [d \in DocIds |-> 0]

\* no _tokenize call made
TokIdle ==
    /\ tok_text = <<>>
    /\ tok_calls = 0
    /\ tok_first = <<>>
    /\ tok_out = <<>>

Chats == 1..MaxChats

\* no conversation stored, no chat request made
ConvIdle ==
    /\ conversations = <<>>
    /\ messages = <<>>
    /\ cv_pc = [p \in Chats |-> "idle"]
    /\ cv_session = [p \in Chats |-> "none"]
    /\ cv_conversation = [p \in Chats |-> 0]

Init ==
    /\ SearchIdle
    /\ CtxIdle
    /\ ChunkIdle
    /\ ChatIdle
    /\ DocsIdle
    /\ ConvIdle
    /\ TokIdle

Search ==
    /\ pc = "idle"
    /\ \E cs \in CandidateLists, qe \in QueryEmbeddings,
          ms \in MinScores, k \in 0..MaxTopK :
        \E bm \in Bm25Outputs(cs, qe, HAS_BM25) :
            \E out \in {search(cs, qe, bm, ms, k, HAS_BM25)} :
                /\ chunks' = cs
                /\ query_embedding' = qe
                /\ min_score' = ms
                /\ top_k' = k
                /\ bm25_scores' = bm
                /\ pc' = IF out.raised THEN "raised" ELSE "returned"
                /\ scored_chunks' = out.scored
                /\ vector_ranked' = out.vector_ranked
                /\ bm25_ranked' = out.bm25_ranked
                /\ results' = out.results
                /\ returned' = out.returned
                /\ UNCHANGED <<HAS_BM25, ctxVars, chunkVars, chatVars, docVars, tokVars, convVars>>

Next == Search

Spec == Init /\ [][Next]_vars

-----------------------------------------------------------------------------
(* RetrievalService.build_context *)

CharsPerToken == 4

\* a chunk text of n characters
Text(n) == [i \in 1..n |-> "x"]

\* a ranked chunk as search returns it
CtxChunk(i, n, ci) ==
    [id |-> i, document_id |-> 1, text |-> Text(n), chunk_index |-> ci,
     page_number |-> 0, score |-> 0]

CtxChoices == (1..MaxTextLen) \X (0..MaxChunkIndex)

CtxLists ==
    UNION {{[i \in 1..n |-> CtxChunk(i, f[i][1], f[i][2])] : f \in [1..n -> CtxChoices]}
              : n \in 0..MaxCtxChunks}

\* tests the budget before the chunk is added
Exceeds_BeforeAdd(total_chars, chunk_text, max_chars) ==
    total_chars > max_chars

\* stops also when the budget would be met exactly
Exceeds_AtBudget(total_chars, chunk_text, max_chars) ==
    total_chars + Len(chunk_text) >= max_chars

\* line 204
Exceeds(total_chars, chunk_text, max_chars) ==
    total_chars + Len(chunk_text) > max_chars

\* the zero-based index as label
SourceLabel_ZeroBased(chunk) == chunk.chunk_index

\* line 207: the N of "[Source N]"
SourceLabel(chunk) == chunk.chunk_index + 1

\* lines 202-208: context_parts, each part held as its label and its text
RECURSIVE ContextParts(_, _, _)
ContextParts(cs, total_chars, max_chars) ==
    IF cs = <<>> THEN <<>>
    ELSE LET chunk == Head(cs)
         IN  IF Exceeds(total_chars, chunk.text, max_chars) THEN <<>>
             ELSE <<[label |-> SourceLabel(chunk), text |-> chunk.text]>>
                      \o ContextParts(Tail(cs), total_chars + Len(chunk.text), max_chars)

\* lines 184-210; the string returned is the join of the parts, "" for none
build_context(cs, mt) ==
    IF cs = <<>> THEN <<>> ELSE ContextParts(cs, 0, mt * CharsPerToken)

\* str(n) for n >= 0
DigitChars == <<"0", "1", "2", "3", "4", "5", "6", "7", "8", "9">>

RECURSIVE Str(_)
Str(n) ==
    IF n < 10 THEN <<DigitChars[n + 1]>>
    ELSE Str(n \div 10) \o <<DigitChars[(n % 10) + 1]>>

\* line 207: f"[Source {N}]\n{chunk_text}"
FormatPart(part) ==
    <<"[", "S", "o", "u", "r", "c", "e", " ">> \o Str(part.label)
        \o <<"]", "\n">> \o part.text

\* line 210: the separator of the join
Separator == <<"\n", "\n", "-", "-", "-", "\n", "\n">>

\* sep.join(strs)
RECURSIVE Join(_, _)
Join(strs, sep) ==
    IF strs = <<>> THEN <<>>
    ELSE IF Len(strs) = 1 THEN strs[1]
    ELSE strs[1] \o sep \o Join(Tail(strs), sep)

\* line 210
ContextString(parts) ==
    Join([i \in 1..Len(parts) |-> FormatPart(parts[i])], Separator)

InitCtx ==
    /\ SearchIdle
    /\ ChunkIdle
    /\ ChatIdle
    /\ DocsIdle
    /\ ConvIdle
    /\ TokIdle
    /\ ctx_chunks \in CtxLists
    /\ max_tokens \in 0..MaxTokens
    /\ ctx_pc = "idle"
    /\ context_parts = <<>>
    /\ context = <<>>

BuildContext ==
    /\ ctx_pc = "idle"
    /\ context_parts' = build_context(ctx_chunks, max_tokens)
    /\ context' = ContextString(build_context(ctx_chunks, max_tokens))
    /\ ctx_pc' = "built"
    /\ UNCHANGED <<searchVars, chunkVars, chatVars, docVars, tokVars, convVars, ctx_chunks, max_tokens>>

NextCtx == BuildContext

SpecCtx == InitCtx /\ [][NextCtx]_vars

-----------------------------------------------------------------------------
(* Vocabulary of the properties, over the inputs of the call *)

Embedded(i) ==
    "embedding" \in DOMAIN chunks[i] /\ Len(chunks[i].embedding) > 0

Malformed(i) ==
    Embedded(i) /\ Len(chunks[i].embedding) # Len(query_embedding)

ZeroMagnitude(i) ==
    /\ Embedded(i)
    /\ ~Malformed(i)
    /\ \A d \in 1..Len(chunks[i].embedding) : chunks[i].embedding[d] = 0

EmbeddedCount == Cardinality({i \in 1..Len(chunks) : Embedded(i)})

\* vector similarity of candidate i to the query; NaN when undefined
Sim(i) == cosine_similarity(query_embedding, chunks[i].embedding)

\* BM25 score of candidate i in this call, 0 when BM25 was not run
Bm(i) ==
    IF chunks[i].id \in DOMAIN bm25_scores THEN bm25_scores[chunks[i].id] ELSE 0

\* position of the chunk with this id in the candidate list
Pos(id) == CHOOSE i \in 1..Len(chunks) : chunks[i].id = id

Ids(rs) == {rs[j].id : j \in 1..Len(rs)}

HybridMode == pc = "returned" /\ HAS_BM25 /\ EmbeddedCount >= 2

VectorOnlyMode == pc = "returned" /\ (~HAS_BM25 \/ EmbeddedCount < 2)

PassesPrimary(i) == Sim(i) # NaN /\ Sim(i) >= min_score

PassesSecondary(i) == Bm(i) > 0 /\ Sim(i) # NaN /\ 5 * Sim(i) >= Scale

-----------------------------------------------------------------------------
\* C1: in hybrid mode an embedded candidate is retained if and only if its
\* vector similarity is >= min_score, or its BM25 score is > 0 and its
\* similarity is >= 0.2; no chunk failing both conditions is returned.
C1_HybridInclusion ==
    HybridMode =>
        /\ \A i \in 1..Len(chunks) :
              Embedded(i) =>
                  (chunks[i].id \in Ids(results)
                      <=> (PassesPrimary(i) \/ PassesSecondary(i)))
        /\ \A id \in Ids(returned) :
              PassesPrimary(Pos(id)) \/ PassesSecondary(Pos(id))

\* min_score = 0.5: a chunk at 0.44 without keyword score is excluded, one at
\* 0.44 with a keyword score is retained, and a chunk above 0.5 comes first
C1_Witness ==
    /\ HybridMode
    /\ 2 * min_score = Scale
    /\ \E i, j \in 1..Len(chunks) :
          /\ Embedded(i) /\ Embedded(j)
          /\ Sim(i) = Sim(j) /\ ~PassesPrimary(i) /\ 5 * Sim(i) >= Scale
          /\ Bm(i) = 0 /\ Bm(j) > 0
          /\ chunks[i].id \notin Ids(results)
          /\ chunks[j].id \in Ids(results)
    /\ returned # <<>>
    /\ PassesPrimary(Pos(returned[1].id))

\* C2 (as stated): the returned list is ordered by fused score descending,
\* ties broken by vector similarity descending, then by insertion order.
C2_TieByVectorScore ==
    HybridMode =>
        \A a, b \in 1..Len(returned) :
            a < b =>
                \/ returned[a].score > returned[b].score
                \/ /\ returned[a].score = returned[b].score
                   /\ \/ Sim(Pos(returned[a].id)) > Sim(Pos(returned[b].id))
                      \/ /\ Sim(Pos(returned[a].id)) = Sim(Pos(returned[b].id))
                         /\ Pos(returned[a].id) < Pos(returned[b].id)

OrderedByScoreThenInsertion(rs) ==
    \A a, b \in 1..Len(rs) :
        a < b =>
            \/ rs[a].score > rs[b].score
            \/ rs[a].score = rs[b].score /\ Pos(rs[a].id) < Pos(rs[b].id)

\* C2 (amended): the list is ordered by fused score descending and chunks of
\* equal fused score keep their candidate insertion order, whatever their
\* vector similarities.
C2_TieByInsertionOrder ==
    HybridMode =>
        OrderedByScoreThenInsertion(results) /\ OrderedByScoreThenInsertion(returned)

\* two returned chunks tie on the fused score and the first has the lower
\* vector similarity
C2_Witness ==
    /\ HybridMode
    /\ Len(returned) >= 2
    /\ returned[1].score = returned[2].score
    /\ Sim(Pos(returned[1].id)) < Sim(Pos(returned[2].id))

\* C3: without keyword scoring, or with fewer than 2 embedded candidates,
\* search returns exactly the candidates with similarity >= min_score, by
\* similarity descending, each with score equal to its similarity; the
\* keyword floor plays no part.
C3_VectorOnly ==
    VectorOnlyMode =>
        /\ \A i \in 1..Len(chunks) :
              Embedded(i) => (chunks[i].id \in Ids(results) <=> PassesPrimary(i))
        /\ Ids(results) \subseteq {chunks[i].id : i \in 1..Len(chunks)}
        /\ \A j \in 1..Len(results) :
              /\ results[j].score = Sim(Pos(results[j].id))
              /\ results[j].score >= min_score
        /\ \A a, b \in 1..Len(results) :
              a < b => results[a].score >= results[b].score
        /\ \A j \in 1..Len(returned) : returned[j] = results[j]
        /\ bm25_scores = <<>>

\* keyword scoring unavailable, several candidates, one of them between the
\* floor and min_score and left out, two others returned in order
C3_Witness ==
    /\ VectorOnlyMode
    /\ ~HAS_BM25
    /\ \E i \in 1..Len(chunks) :
          /\ Embedded(i)
          /\ 5 * Sim(i) >= Scale
          /\ ~PassesPrimary(i)
          /\ chunks[i].id \notin Ids(results)
    /\ Len(returned) >= 2
    /\ returned[1].score > returned[2].score

WellFormedChunks ==
    Filter(chunks, [i \in 1..Len(chunks) |-> ~Malformed(i)])

\* C4: a candidate whose embedding has another dimensionality than the query
\* embedding is skipped: search does not raise and returns what it returns
\* for the candidate set without that chunk.
C4_MismatchSkipped ==
    (pc # "idle" /\ \E i \in 1..Len(chunks) : Malformed(i)) =>
        /\ pc = "returned"
        /\ returned = search(WellFormedChunks, query_embedding, bm25_scores,
                             min_score, top_k, HAS_BM25).returned

NonZeroChunks ==
    Filter(chunks, [i \in 1..Len(chunks) |-> ~ZeroMagnitude(i)])

\* C5: a candidate whose embedding has zero magnitude is excluded from
\* scoring: it is never returned, holds no position in the vector or the
\* keyword ranking, and the other chunks come out as they do for the
\* candidate set without it.
C5_ZeroMagnitudeExcluded ==
    (pc = "returned" /\ \E i \in 1..Len(chunks) : ZeroMagnitude(i)) =>
        /\ \A id \in Ids(returned) : ~ZeroMagnitude(Pos(id))
        /\ \A r \in 1..Len(vector_ranked) :
              ~ZeroMagnitude(Pos(scored_chunks[vector_ranked[r]].id))
        /\ \A r \in 1..Len(bm25_ranked) :
              ~ZeroMagnitude(Pos(scored_chunks[bm25_ranked[r]].id))
        /\ results = search(NonZeroChunks, query_embedding, bm25_scores,
                            min_score, top_k, HAS_BM25).results

EmbeddedChunks ==
    Filter(chunks, [i \in 1..Len(chunks) |-> Embedded(i)])

\* C6: a candidate whose embedding is absent or empty is skipped entirely:
\* it is never returned, holds no rank position, the outcome is that of the
\* search over the candidate set without it, and it is the empty list when
\* every candidate is un-embedded.
C6_UnembeddedSkipped ==
    pc # "idle" =>
        LET ref == search(EmbeddedChunks, query_embedding, bm25_scores,
                          min_score, top_k, HAS_BM25)
        IN  /\ (pc = "raised") = ref.raised
            /\ results = ref.results
            /\ returned = ref.returned
            /\ vector_ranked = ref.vector_ranked
            /\ bm25_ranked = ref.bm25_ranked
            /\ \A id \in Ids(returned) \cup Ids(scored_chunks) : Embedded(Pos(id))
            /\ (\A i \in 1..Len(chunks) : ~Embedded(i)) =>
                  (pc = "returned" /\ returned = <<>>)

\* a candidate without the key, one with an empty list, and a chunk returned
C6_Witness ==
    /\ pc = "returned"
    /\ \E i \in 1..Len(chunks) : "embedding" \notin DOMAIN chunks[i]
    /\ \E i \in 1..Len(chunks) :
          "embedding" \in DOMAIN chunks[i] /\ chunks[i].embedding = <<>>
    /\ returned # <<>>

PassesInclusion(i) ==
    IF HAS_BM25 /\ EmbeddedCount >= 2
    THEN PassesPrimary(i) \/ PassesSecondary(i)
    ELSE PassesPrimary(i)

C8_TopK ==
    pc = "returned" =>
        /\ Len(returned) <= top_k
        /\ Len(returned) = (IF top_k < Len(results) THEN top_k ELSE Len(results))
        /\ \A j \in 1..Len(returned) :
              /\ returned[j] = results[j]
              /\ "score" \in DOMAIN returned[j]
              /\ "vector_score" \notin DOMAIN returned[j]
              /\ "bm25_score" \notin DOMAIN returned[j]
        /\ \A i \in 1..Len(chunks) :
              (Embedded(i) /\ PassesInclusion(i)) => chunks[i].id \in Ids(results)

\* more chunks retained than asked for
C8_Witness ==
    /\ HybridMode
    /\ top_k >= 1
    /\ Len(results) > top_k
    /\ Len(returned) = top_k

-----------------------------------------------------------------------------
\* C9 (as stated): the i-th chunk of the ranked list appears under the label
\* "Source i".
C9_LabelIsListPosition ==
    ctx_pc = "built" =>
        \A i \in 1..Len(context_parts) : context_parts[i].label = i

\* C9 (amended): a chunk appears under the label "Source N" where N is its
\* chunk_index within its source document plus one, whatever its position
\* in the ranked list.
C9_LabelIsChunkIndexPlusOne ==
    ctx_pc = "built" =>
        /\ Len(context_parts) <= Len(ctx_chunks)
        /\ \A i \in 1..Len(context_parts) :
              context_parts[i].label = ctx_chunks[i].chunk_index + 1

\* two chunks included, both under "Source 1"
C9_Witness ==
    /\ ctx_pc = "built"
    /\ Len(context_parts) >= 2
    /\ context_parts[1].label = 1
    /\ context_parts[2].label = 1

RECURSIVE CumulativeLen(_)
CumulativeLen(n) ==
    IF n = 0 THEN 0 ELSE CumulativeLen(n - 1) + Len(ctx_chunks[n].text)

\* C10: build_context includes exactly the longest prefix of the ranked list
\* whose cumulative text length is <= max_tokens*4, each chunk in full and in
\* order; nothing for zero chunks or when the first chunk exceeds the budget.
C10_LongestPrefix ==
    ctx_pc = "built" =>
        LET n == Len(context_parts)
        IN  /\ n <= Len(ctx_chunks)
            /\ \A i \in 1..n : context_parts[i].text = ctx_chunks[i].text
            /\ CumulativeLen(n) <= max_tokens * 4
            /\ n < Len(ctx_chunks) => CumulativeLen(n + 1) > max_tokens * 4

\* the first chunk is included, the second is left out, and so is the third,
\* which is smaller and would still fit the budget
C10_Witness ==
    /\ ctx_pc = "built"
    /\ Len(context_parts) = 1
    /\ Len(ctx_chunks) = 3
    /\ Len(ctx_chunks[3].text) < Len(ctx_chunks[2].text)
    /\ Len(ctx_chunks[1].text) + Len(ctx_chunks[3].text) <= max_tokens * 4

-----------------------------------------------------------------------------
\* length of "[Source N]\n" for the i-th included chunk
LabelLen(i) == Len(Str(context_parts[i].label)) + 10

RECURSIVE SumLabelLen(_)
SumLabelLen(n) == IF n = 0 THEN 0 ELSE SumLabelLen(n - 1) + LabelLen(n)

LongestLabelLen ==
    IF context_parts = <<>> THEN 0
    ELSE LabelLen(CHOOSE i \in 1..Len(context_parts) :
                      \A j \in 1..Len(context_parts) : LabelLen(j) <= LabelLen(i))

\* C11 (as stated): the returned string is never longer than max_tokens*4
\* plus the label and the separator (7 characters) of one included chunk.
C11_OneLabelAndSeparator ==
    ctx_pc = "built" =>
        Len(context) <= max_tokens * 4
                          + (IF context_parts = <<>> THEN 0 ELSE LongestLabelLen + 7)

\* C11 (amended): the returned string is never longer than max_tokens*4 plus
\* the labels of all included chunks and the separators between them; only
\* the chunk texts count against the budget.
C11_AllLabelsAndSeparators ==
    ctx_pc = "built" =>
        LET n == Len(context_parts)
        IN  /\ Len(context) <= max_tokens * 4 + SumLabelLen(n)
                                 + (IF n = 0 THEN 0 ELSE 7 * (n - 1))
            /\ n = 0 <=> context = <<>>

\* two chunks fill the budget exactly: the string exceeds the budget by two
\* labels and a separator
C11_Witness ==
    /\ ctx_pc = "built"
    /\ Len(context_parts) = 2
    /\ Len(ctx_chunks[1].text) + Len(ctx_chunks[2].text) = max_tokens * 4
    /\ Len(context) = max_tokens * 4 + 11 + 11 + 7

-----------------------------------------------------------------------------
(* Chunking strategies: src/src/features/documents/chunking.py              *)
(* A text is a sequence of characters; "A" stands for the upper-case        *)
(* letters of the sentence pattern, "a" for any other word character.       *)

Whitespace == {" ", "\n"}

SentenceEnd == {".", "!", "?"}

UpperCase == {"A"}

\* str.strip()
RECURSIVE LStrip(_)
LStrip(t) ==
    IF t # <<>> /\ Head(t) \in Whitespace THEN LStrip(Tail(t)) ELSE t

Strip(t) == Reverse(LStrip(Reverse(LStrip(t))))

\* last index of the whitespace run that starts at p
RECURSIVE WsRunEnd(_, _)
WsRunEnd(t, p) ==
    IF p < Len(t) /\ t[p + 1] \in Whitespace THEN WsRunEnd(t, p + 1) ELSE p

\* The three patterns given to re.split.  MatchEnd is the index of the last
\* character of the match that starts at p, 0 when there is none.
\*   "sentence"  (?<=[.!?])\s+(?=[A-Z...])     line 46
\*   "inner"     (?<=[.!?])\s+                 line 120
\*   "paragraph" \n\s*\n                       line 96
MatchEnd(t, p, pattern) ==
    IF pattern = "paragraph"
    THEN IF t[p] # "\n" THEN 0
         ELSE LET e == WsRunEnd(t, p)
                  nl == {q \in (p + 1)..e : t[q] = "\n"}
              IN  IF nl = {} THEN 0
                  ELSE CHOOSE q \in nl : \A r \in nl : r <= q
    ELSE IF p = 1 \/ t[p] \notin Whitespace THEN 0
    ELSE IF t[p - 1] \notin SentenceEnd THEN 0
    ELSE LET e == WsRunEnd(t, p)
         IN  IF pattern = "inner" THEN e
             ELSE IF e < Len(t) /\ t[e + 1] \in UpperCase THEN e ELSE 0

\* re.split(pattern, t): the pieces between the leftmost matches
RECURSIVE SplitFrom(_, _, _, _)
SplitFrom(t, start, p, pattern) ==
    IF p > Len(t) THEN <<SubSeq(t, start, Len(t))>>
    ELSE LET e == MatchEnd(t, p, pattern)
         IN  IF e > 0
             THEN <<SubSeq(t, start, p - 1)>> \o SplitFrom(t, e + 1, e + 1, pattern)
             ELSE SplitFrom(t, start, p + 1, pattern)

ReSplit(t, pattern) == SplitFrom(t, 1, 1, pattern)

ChunkDict(text, idx, strategy) ==
    [text |-> text, chunk_index |-> idx, strategy |-> strategy]

AppendChunk_OneBased(cs, text, strategy) ==
    Append(cs, ChunkDict(text, Len(cs) + 1, strategy))

\* chunks.append({... "chunk_index": len(chunks) ...})
AppendChunk(cs, text, strategy) == Append(cs, ChunkDict(text, Len(cs), strategy))

(* SentenceChunking.chunk, lines 43-84 *)

\* s + overlap_text
Prepend_NoSpace(s, overlap_text) == s \o overlap_text

\* line 69: s + " " + overlap_text
Prepend(s, overlap_text) == s \o <<" ">> \o overlap_text

KeepPopping_NoEmptyTest(current_chunk, overlap_text, overlap) ==
    Len(overlap_text) < overlap

\* line 67, the condition of the while loop
KeepPopping(current_chunk, overlap_text, overlap) ==
    current_chunk # <<>> /\ Len(overlap_text) < overlap

\* lines 65-72; list.pop() raises IndexError on an empty list
RECURSIVE OverlapLoop(_, _, _, _)
OverlapLoop(current_chunk, overlap_text, overlap_sentences, overlap) ==
    IF KeepPopping(current_chunk, overlap_text, overlap)
    THEN IF current_chunk = <<>>
         THEN [raised |-> TRUE, text |-> overlap_text, sentences |-> overlap_sentences]
         ELSE LET s == current_chunk[Len(current_chunk)]
              IN  OverlapLoop(SubSeq(current_chunk, 1, Len(current_chunk) - 1),
                              Prepend(s, overlap_text),
                              <<s>> \o overlap_sentences, overlap)
    ELSE [raised |-> FALSE, text |-> overlap_text, sentences |-> overlap_sentences]

\* line 57
SentenceOverflows(current_chunk, current_length, sentence, size) ==
    current_length + Len(sentence) > size /\ current_chunk # <<>>

\* lines 52-82
RECURSIVE SentenceLoop(_, _, _, _, _, _)
SentenceLoop(sentences, cs, current_chunk, current_length, size, overlap) ==
    IF sentences = <<>>
    THEN [raised |-> FALSE,
          chunks |-> IF current_chunk # <<>>
                     THEN AppendChunk(cs, Join(current_chunk, <<" ">>), "sentence")
                     ELSE cs]
    ELSE LET sentence == Strip(Head(sentences))
         IN  IF sentence = <<>>
             THEN SentenceLoop(Tail(sentences), cs, current_chunk, current_length,
                               size, overlap)
             ELSE IF SentenceOverflows(current_chunk, current_length, sentence, size)
             THEN LET ov == OverlapLoop(current_chunk, <<>>, <<>>, overlap)
                  IN  IF ov.raised THEN [raised |-> TRUE, chunks |-> <<>>]
                      ELSE SentenceLoop(Tail(sentences),
                               AppendChunk(cs, Join(current_chunk, <<" ">>), "sentence"),
                               Append(ov.sentences, sentence),
                               Len(ov.text) + Len(sentence) + 1, size, overlap)
             ELSE SentenceLoop(Tail(sentences), cs, Append(current_chunk, sentence),
                               current_length + Len(sentence) + 1, size, overlap)

SentenceChunk(text, size, overlap) ==
    SentenceLoop(ReSplit(text, "sentence"), <<>>, <<>>, 0, size, overlap)

(* SemanticChunking.chunk, lines 94-158 *)

Flush_Discard(cs, current_chunk) == cs

\* lines 110-117 and 139-146: append the pending paragraphs as one chunk
Flush(cs, current_chunk) ==
    IF current_chunk # <<>>
    THEN AppendChunk(cs, Join(current_chunk, <<"\n", "\n">>), "semantic")
    ELSE cs

\* lines 123-133: the sentences of an oversized paragraph
RECURSIVE InnerLoop(_, _, _, _, _)
InnerLoop(sentences, cs, temp_chunk, temp_length, max_size) ==
    IF sentences = <<>>
    THEN [chunks |-> cs, temp_chunk |-> temp_chunk, temp_length |-> temp_length]
    ELSE LET sent == Head(sentences)
         IN  IF temp_length + Len(sent) > max_size /\ temp_chunk # <<>>
             THEN InnerLoop(Tail(sentences),
                            AppendChunk(cs, Join(temp_chunk, <<" ">>), "semantic"),
                            <<sent>>, Len(sent), max_size)
             ELSE InnerLoop(Tail(sentences), cs, Append(temp_chunk, sent),
                            temp_length + Len(sent), max_size)

\* lines 102-156
RECURSIVE ParagraphLoop(_, _, _, _, _)
ParagraphLoop(paragraphs, cs, current_chunk, current_length, max_size) ==
    IF paragraphs = <<>> THEN Flush(cs, current_chunk)
    ELSE LET para == Strip(Head(paragraphs))
             rest == Tail(paragraphs)
         IN  IF para = <<>>
             THEN ParagraphLoop(rest, cs, current_chunk, current_length, max_size)
             ELSE IF Len(para) > max_size
             THEN LET inner == InnerLoop(ReSplit(para, "inner"),
                                         Flush(cs, current_chunk), <<>>, 0, max_size)
                  IN  IF inner.temp_chunk # <<>>
                      THEN ParagraphLoop(rest, inner.chunks,
                                         <<Join(inner.temp_chunk, <<" ">>)>>,
                                         inner.temp_length, max_size)
                      ELSE ParagraphLoop(rest, inner.chunks, <<>>, 0, max_size)
             ELSE IF current_length + Len(para) > max_size /\ current_chunk # <<>>
             THEN ParagraphLoop(rest, Flush(cs, current_chunk), <<para>>,
                                Len(para), max_size)
             ELSE ParagraphLoop(rest, cs, Append(current_chunk, para),
                                current_length + Len(para), max_size)

SemanticChunk(text, max_size) ==
    [raised |-> FALSE,
     chunks |-> ParagraphLoop(ReSplit(text, "paragraph"), <<>>, <<>>, 0, max_size)]

(* RecursiveChunking.chunk, lines 28-33 *)

\* what RecursiveCharacterTextSplitter.split_text may hand back: nothing for
\* an empty text, else the text whole or cut in two
SplitterOutputs(text) ==
    IF text = <<>> THEN {<<>>}
    ELSE IF Len(text) = 1 THEN {<<text>>}
    ELSE {<<text>>,
          <<SubSeq(text, 1, Len(text) \div 2),
            SubSeq(text, Len(text) \div 2 + 1, Len(text))>>}

RecursiveChunk(splits) ==
    [raised |-> FALSE,
     chunks |-> [i \in 1..Len(splits) |-> ChunkDict(splits[i], i - 1, "recursive")]]

(* get_chunking_strategy, lines 161-186 *)

SupportedStrategies == {"recursive", "sentence", "semantic"}

StrategyClass_DefaultSentence(strategy) ==
    IF strategy \in SupportedStrategies THEN strategy ELSE "sentence"

\* line 185: strategies.get(strategy, strategies["recursive"])
StrategyClass(strategy) ==
    IF strategy \in SupportedStrategies THEN strategy ELSE "recursive"

(* The inputs of a chunk call *)

Pieces ==
    {<<"A", ".">>, <<"A", "a", "a", ".">>, <<" ">>, <<"\n", "\n">>, <<"a">>}

RECURSIVE Flatten(_)
Flatten(ps) == IF ps = <<>> THEN <<>> ELSE Head(ps) \o Flatten(Tail(ps))

Texts ==
    UNION {{Flatten(ps) : ps \in [1..n -> Pieces]} : n \in 0..MaxPieces}

StrategyNames == SupportedStrategies \cup {"paragraph"}

ChunkSizes == {1, 6, 10}

ChunkOverlaps == {0, 3, 12}

InitChunk ==
    /\ SearchIdle
    /\ CtxIdle
    /\ ChatIdle
    /\ DocsIdle
    /\ ConvIdle
    /\ TokIdle
    /\ ck_strategy \in StrategyNames
    /\ ck_size \in ChunkSizes
    /\ ck_overlap \in (IF ck_strategy = "sentence" THEN ChunkOverlaps ELSE {0})
    /\ ck_text \in Texts
    /\ ck_pc = "idle"
    /\ ck_class = "none"
    /\ ck_chunks = <<>>

\* get_chunking_strategy(strategy, chunk_size, chunk_overlap).chunk(text)
Chunk ==
    /\ ck_pc = "idle"
    /\ \E splits \in (IF StrategyClass(ck_strategy) = "recursive"
                      THEN SplitterOutputs(ck_text) ELSE {<<>>}) :
         \E out \in {IF StrategyClass(ck_strategy) = "sentence"
                     THEN SentenceChunk(ck_text, ck_size, ck_overlap)
                     ELSE IF StrategyClass(ck_strategy) = "semantic"
                     THEN SemanticChunk(ck_text, ck_size)
                     ELSE RecursiveChunk(splits)} :
            /\ ck_class' = StrategyClass(ck_strategy)
            /\ ck_pc' = IF out.raised THEN "raised" ELSE "done"
            /\ ck_chunks' = out.chunks
    /\ UNCHANGED <<searchVars, ctxVars, chatVars, docVars, tokVars, convVars, ck_strategy, ck_size, ck_overlap,
                   ck_text>>

NextChunk == Chunk

SpecChunk == InitChunk /\ [][NextChunk]_vars

-----------------------------------------------------------------------------
(* Properties of the chunking strategies *)

ChunkCalled == ck_pc # "idle"

\* the characters of t that are not whitespace
RECURSIVE NonWs(_)
NonWs(t) ==
    IF t = <<>> THEN <<>>
    ELSE IF Head(t) \in Whitespace THEN NonWs(Tail(t))
    ELSE <<Head(t)>> \o NonWs(Tail(t))

\* the non-empty stripped pieces of a split
StrippedPieces(t, pattern) ==
    LET stripped == [i \in 1..Len(ReSplit(t, pattern)) |-> Strip(ReSplit(t, pattern)[i])]
    IN  Filter(stripped, [i \in 1..Len(stripped) |-> stripped[i] # <<>>])

\* The indivisible units of the input: the sentences for the sentence
\* strategy; for the semantic strategy the paragraphs, an oversized paragraph
\* counting as its sentences.
RECURSIVE SemanticUnits(_, _)
SemanticUnits(paras, max_size) ==
    IF paras = <<>> THEN <<>>
    ELSE (IF Len(Head(paras)) > max_size
          THEN ReSplit(Head(paras), "inner") ELSE <<Head(paras)>>)
         \o SemanticUnits(Tail(paras), max_size)

Units ==
    IF ck_class = "sentence" THEN StrippedPieces(ck_text, "sentence")
    ELSE SemanticUnits(StrippedPieces(ck_text, "paragraph"), ck_size)

\* chunk c holds exactly the units a..b
Holds(c, a, b) == NonWs(ck_chunks[c].text) = NonWs(Flatten(SubSeq(Units, a, b)))

\* The numbers of leading units that the first k chunks can account for when
\* every chunk continues where the previous one stopped, a chunk of the
\* sentence strategy being allowed to repeat units already seen (its overlap).
RECURSIVE Covered(_)
Covered(k) ==
    IF k = 0 THEN {0}
    ELSE UNION {{b \in (v + 1)..Len(Units) :
                    \E a \in (IF ck_class = "sentence" THEN 1..(v + 1) ELSE {v + 1}) :
                        Holds(k, a, b)} : v \in Covered(k - 1)}

\* C12: for every text and strategy the chunk_index values of the returned
\* chunks are 0, 1, ..., N-1 in output order, every chunk has non-empty text,
\* and the empty text gives the empty list and no error.
C12_IndexedNonEmpty ==
    ChunkCalled =>
        /\ ck_pc = "done"
        /\ \A i \in 1..Len(ck_chunks) :
              /\ ck_chunks[i].chunk_index = i - 1
              /\ ck_chunks[i].text # <<>>
        /\ ck_text = <<>> => ck_chunks = <<>>

C12_Witness ==
    /\ ck_pc = "done"
    /\ ck_class = "semantic"
    /\ Len(ck_chunks) = 3
    /\ ck_chunks[3].chunk_index = 2

\* C13: the sentence and semantic chunkers lose no content: every unit of the
\* input is in some chunk, in input order, and the chunks with the repeated
\* overlap units left out give back all non-whitespace content of the input.
C13_NoContentLost ==
    (ChunkCalled /\ ck_class \in {"sentence", "semantic"}) =>
        /\ ck_pc = "done"
        /\ NonWs(Flatten(Units)) = NonWs(ck_text)
        /\ Len(Units) \in Covered(Len(ck_chunks))

\* a sentence call whose second chunk repeats a sentence of the first
C13_Witness ==
    /\ ck_pc = "done"
    /\ ck_class = "sentence"
    /\ Len(Units) = 3
    /\ Len(ck_chunks) = 2
    /\ Holds(1, 1, 2)
    /\ Holds(2, 2, 3)

Oversized(u) == Len(u) > ck_size

\* t ends with a space followed by u
EndsWith(t, u) ==
    /\ Len(t) > Len(u)
    /\ SubSeq(t, Len(t) - Len(u) + 1, Len(t)) = u
    /\ t[Len(t) - Len(u)] = " "

\* C14: for every text, chunk size and overlap, also a size below the
\* smallest unit and an overlap above the size, chunk returns without
\* raising and every oversized unit is the text of a chunk (behind the
\* overlap sentences when the sentence strategy repeats some).
C14_OversizedUnitReturned ==
    (ChunkCalled /\ ck_class \in {"sentence", "semantic"}) =>
        /\ ck_pc = "done"
        /\ \A u \in 1..Len(Units) :
              Oversized(Units[u]) =>
                 \E c \in 1..Len(ck_chunks) :
                    \/ ck_chunks[c].text = Units[u]
                    \/ /\ ck_class = "sentence"
                       /\ ck_overlap > 0
                       /\ EndsWith(ck_chunks[c].text, Units[u])

\* size below every sentence, overlap above the size
C14_Witness ==
    /\ ck_pc = "done"
    /\ ck_class = "sentence"
    /\ ck_overlap > ck_size
    /\ Len(Units) = 3
    /\ \A u \in 1..3 : Oversized(Units[u])
    /\ Len(ck_chunks) = 3

Unsupported == ck_strategy \notin SupportedStrategies

\* C15 as stated: an unsupported strategy name is reported as an error, no
\* chunker is built and no chunks are produced under another strategy.
C15_UnsupportedRejected ==
    (ChunkCalled /\ Unsupported) =>
        /\ ck_pc = "raised"
        /\ ck_class = "none"
        /\ ck_chunks = <<>>

\* C15 amended: an unsupported strategy name is not reported; the recursive
\* strategy is built in its place and the chunks are produced by it, while a
\* supported name builds the strategy it names.
C15_UnsupportedFallsBack ==
    ChunkCalled =>
        /\ Unsupported =>
              /\ ck_pc = "done"
              /\ ck_class = "recursive"
              /\ \A i \in 1..Len(ck_chunks) : ck_chunks[i].strategy = "recursive"
        /\ ~Unsupported => ck_class = ck_strategy

C15_Witness ==
    /\ ck_pc = "done"
    /\ Unsupported
    /\ ck_class = "recursive"
    /\ Len(ck_chunks) = 2

-----------------------------------------------------------------------------
(* The chat flow around search: ChatService.chat and widget_chat_stream,    *)
(* run by two callers over one chunk store.  A call gives way to the other  *)
(* at its awaits: generate_embedding, get_all_chunks and the generation.    *)

Documents == <<1, 2>>

\* the document that owns the chunk with this id
DocOf(i) == Documents[((i - 1) % Len(Documents)) + 1]

StoreEmbeddingChoices ==
    {[present |-> FALSE, value |-> <<>>]}
        \cup {[present |-> TRUE, value |-> v] :
                 v \in {<<0, 1>>, <<1, 0>>, <<1, 1>>, <<1, 0, 0>>}}

StoredChunk(i, e) == [ChunkRecord(i, e) EXCEPT !.document_id = DocOf(i)]

Stores ==
    UNION {{[i \in 1..n |-> StoredChunk(i, es[i])] : es \in [1..n -> StoreEmbeddingChoices]}
              : n \in 0..MaxStoreChunks}

Queries == {"a", "b"}

\* what generate_embedding returns for a message
QueryEmbedding(q) == IF q = "a" THEN <<1, 0>> ELSE <<0, 1>>

\* document_ids as the caller passes it; <<>> stands for None and []
Scopes == {<<>>, <<1>>, <<2>>}

\* firestore.py lines 124-140
RECURSIVE ChunksOfDocuments(_, _)
ChunksOfDocuments(st, doc_ids) ==
    IF doc_ids = <<>> THEN <<>>
    ELSE Filter(st, [i \in 1..Len(st) |-> st[i].document_id = Head(doc_ids)])
            \o ChunksOfDocuments(st, Tail(doc_ids))

get_all_chunks(st, doc_ids) ==
    ChunksOfDocuments(st, IF doc_ids # <<>> THEN doc_ids ELSE Documents)

\* query_embedding is a local of the call
Frame_OnService(p) == 1

\* the frame that holds the locals of caller p's search
Frame(p) == p

FetchedAddress(id) == <<"fetched", id>>

\* scored_chunks.append(chunk): the fetched dict itself
ScoredAddress_Fetched(id) == <<"fetched", id>>

\* lines 93-102: scored_chunks.append({...}) makes a new dict
ScoredAddress(id) == <<"scored", id>>

\* The dicts of one call after it ended.  Lines 143 and 172 write to the
\* dicts of scored_chunks, lines 123-125 pop from the dicts of results, which
\* in the hybrid branch are dicts of scored_chunks (line 180) and in the
\* vector-only branch new ones (line 115).
HeapAfter(cs, out) ==
    LET hybrid == out.vector_ranked # <<>>
        final(j) == IF hybrid /\ \E r \in 1..Len(out.results) :
                                     out.results[r].id = out.scored[j].id
                    THEN out.results[CHOOSE r \in 1..Len(out.results) :
                                        out.results[r].id = out.scored[j].id]
                    ELSE out.scored[j]
        fetched == {FetchedAddress(cs[i].id) : i \in 1..Len(cs)}
        scored == {ScoredAddress(out.scored[j].id) : j \in 1..Len(out.scored)}
    IN  [a \in fetched \cup scored |->
            IF a \in scored
            THEN final(CHOOSE j \in 1..Len(out.scored) :
                           ScoredAddress(out.scored[j].id) = a)
            ELSE cs[CHOOSE i \in 1..Len(cs) : FetchedAddress(cs[i].id) = a]]

\* the dicts get_all_chunks gave, as they are after the call
FetchedAfter(cs, out) ==
    [i \in 1..Len(cs) |-> HeapAfter(cs, out)[FetchedAddress(cs[i].id)]]

ChatTopK == 5

DefaultMinScore == Scale \div 2

DefaultMaxTokens == 4000

InitChat ==
    /\ SearchIdle
    /\ CtxIdle
    /\ ChunkIdle
    /\ DocsIdle
    /\ ConvIdle
    /\ TokIdle
    /\ store \in Stores
    /\ s_pc = [p \in Callers |-> "idle"]
    /\ s_query = [p \in Callers |-> "none"]
    /\ s_scope = [p \in Callers |-> <<>>]
    /\ s_qe = [p \in Callers |-> <<>>]
    /\ s_bm = [p \in Callers |-> <<>>]
    /\ s_fetched = [p \in Callers |-> <<>>]
    /\ s_returned = [p \in Callers |-> <<>>]
    /\ s_context = [p \in Callers |-> <<>>]
    /\ s_failure = [p \in Callers |-> "none"]
    /\ s_issued = [p \in Callers |-> NoCalls]
    /\ s_done = [p \in Callers |-> NoCalls]

\* service.py lines 34-78, router.py lines 145-187: up to the first await
\* inside search
ChatStart(p) ==
    /\ s_pc[p] = "idle"
    /\ \E q \in Queries, scope \in Scopes :
          /\ s_query' = [s_query EXCEPT ![p] = q]
          /\ s_scope' = [s_scope EXCEPT ![p] = scope]
    /\ s_pc' = [s_pc EXCEPT ![p] = "embedding"]
    /\ s_issued' = [s_issued EXCEPT ![p].embedding = @ + 1]
    /\ UNCHANGED <<searchVars, ctxVars, chunkVars, docVars, tokVars, convVars,
                   store, s_qe, s_bm, s_fetched,
                   s_returned, s_context, s_failure, s_done>>

\* retrieval.py line 78 returns
EmbeddingReturns(p) ==
    /\ s_pc[p] = "embedding"
    /\ s_qe' = [s_qe EXCEPT ![Frame(p)] = QueryEmbedding(s_query[p])]
    /\ s_pc' = [s_pc EXCEPT ![p] = "fetching"]
    /\ s_done' = [s_done EXCEPT ![p].embedding = @ + 1]
    /\ s_issued' = [s_issued EXCEPT ![p].store = @ + 1]
    /\ UNCHANGED <<searchVars, ctxVars, chunkVars, docVars, tokVars, convVars,
                   store, s_query, s_scope, s_bm,
                   s_fetched, s_returned, s_context, s_failure>>

\* the failed search is run again from its first line
Abort_Retry(p, cause) ==
    /\ s_pc' = [s_pc EXCEPT ![p] = "embedding"]
    /\ s_failure' = [s_failure EXCEPT ![p] = cause]
    /\ s_issued' = [s_issued EXCEPT ![p].embedding = @ + 1]

\* an exception leaves search and then chat: neither has a handler and
\* nothing is called again (retrieval.py 77-84, service.py 76-81,
\* router.py 187)
Abort(p, cause) ==
    /\ s_pc' = [s_pc EXCEPT ![p] = "aborted"]
    /\ s_failure' = [s_failure EXCEPT ![p] = cause]
    /\ UNCHANGED s_issued

\* retrieval.py line 78 raises
EmbeddingFails(p) ==
    /\ s_pc[p] = "embedding"
    /\ Abort(p, "embedding")
    /\ UNCHANGED <<searchVars, ctxVars, chunkVars, docVars, tokVars, convVars,
                   store, s_query, s_scope, s_qe,
                   s_bm, s_fetched, s_returned, s_context, s_done>>

\* retrieval.py line 81 returns; lines 83-127 and build_context follow
\* without an await
ChunksReturn(p) ==
    /\ s_pc[p] = "fetching"
    /\ \E cs \in {get_all_chunks(store, s_scope[p])} :
         \E bm \in Bm25Outputs(cs, s_qe[Frame(p)], HAS_BM25) :
           \E out \in {search(cs, s_qe[Frame(p)], bm, DefaultMinScore, ChatTopK,
                              HAS_BM25)} :
              /\ s_bm' = [s_bm EXCEPT ![p] = bm]
              /\ s_fetched' = [s_fetched EXCEPT ![p] = FetchedAfter(cs, out)]
              /\ s_done' = [s_done EXCEPT ![p].store = @ + 1]
              /\ IF out.raised
                 THEN /\ Abort(p, "scoring")
                      /\ UNCHANGED <<s_returned, s_context>>
                 ELSE /\ s_pc' = [s_pc EXCEPT ![p] = "generating"]
                      /\ s_returned' = [s_returned EXCEPT ![p] = out.returned]
                      /\ s_context' = [s_context EXCEPT ![p] =
                            ContextString(build_context(out.returned, DefaultMaxTokens))]
                      /\ UNCHANGED <<s_failure, s_issued>>
    /\ UNCHANGED <<searchVars, ctxVars, chunkVars, docVars, tokVars, convVars,
                   store, s_query, s_scope, s_qe>>

\* retrieval.py line 81 raises
ChunkStoreFails(p) ==
    /\ s_pc[p] = "fetching"
    /\ Abort(p, "store")
    /\ UNCHANGED <<searchVars, ctxVars, chunkVars, docVars, tokVars, convVars,
                   store, s_query, s_scope, s_qe,
                   s_bm, s_fetched, s_returned, s_context, s_done>>

\* service.py lines 97-103, router.py lines 204-211
Generate(p) ==
    /\ s_pc[p] = "generating"
    /\ s_pc' = [s_pc EXCEPT ![p] = "responded"]
    /\ UNCHANGED <<searchVars, ctxVars, chunkVars, docVars, tokVars, convVars,
                   store, s_query, s_scope, s_qe,
                   s_bm, s_fetched, s_returned, s_context, s_failure, s_issued,
                   s_done>>

NextChat ==
    \E p \in Callers :
        \/ ChatStart(p)
        \/ EmbeddingReturns(p)
        \/ EmbeddingFails(p)
        \/ ChunksReturn(p)
        \/ ChunkStoreFails(p)
        \/ Generate(p)

SpecChat == InitChat /\ [][NextChat]_vars

-----------------------------------------------------------------------------
(* Properties of the chat flow *)

SearchFailed(p) == s_failure[p] \in {"embedding", "store"}

SearchEnded(p) == s_pc[p] \in {"generating", "responded"} \/ s_failure[p] = "scoring"

\* C16: when the embedding provider or the chunk store fails during search,
\* the chat flow of the caller is not aborted: it goes on to generate a
\* response, with no context.
C16_ProceedsWithoutContext ==
    \A p \in Callers :
        SearchFailed(p) =>
            /\ s_pc[p] \in {"generating", "responded"}
            /\ s_context[p] = <<>>

\* what caller p's search gives when run alone on the store
Alone(p) ==
    search(get_all_chunks(store, s_scope[p]), QueryEmbedding(s_query[p]), s_bm[p],
           DefaultMinScore, ChatTopK, HAS_BM25)

\* C17: under every interleaving of two searches, each search returns (or
\* raises) exactly what it does when run alone on the same store contents.
C17_SearchesIndependent ==
    \A p \in Callers :
        SearchEnded(p) =>
            /\ Alone(p).raised <=> s_failure[p] = "scoring"
            /\ ~Alone(p).raised => s_returned[p] = Alone(p).returned

\* caller 1 has its result while caller 2, asking something else over the
\* same scope, is between its two awaits
C17_Witness ==
    /\ s_pc[1] = "generating"
    /\ s_pc[2] = "fetching"
    /\ s_query[1] # s_query[2]
    /\ s_scope[1] = s_scope[2]
    /\ s_qe[1] # s_qe[2]
    /\ s_returned[1] # <<>>

\* C18: search is a pure read path: no step of it changes the chunk store,
\* and after it ended every chunk record it fetched has the fields and
\* values, embedding included, that the store holds.
C18_ReadOnly ==
    /\ [][store' = store]_vars
    /\ [](\A p \in Callers :
             SearchEnded(p) => s_fetched[p] = get_all_chunks(store, s_scope[p]))

\* a fused search that returned two scored chunks
C18_Witness ==
    /\ s_pc[1] = "responded"
    /\ Len(s_returned[1]) = 2
    /\ Len(s_bm[1]) = 2
    /\ \A i \in 1..2 : "embedding" \in DOMAIN s_fetched[1][i]
    /\ \A i \in 1..2 : "score" \in DOMAIN s_returned[1][i]

-----------------------------------------------------------------------------
(* Document ingestion and deletion: features/documents/service.py and       *)
(* core/firestore.py.  Every call to the store is one step; the steps of an *)
(* ingestion and of a delete_document for the same document interleave.     *)

\* the record create_chunks writes for chunk j of document d
IngestedChunk(d, j, e) ==
    [ChunkRecord((d - 1) * (MaxDocChunks + 1) + j, [present |-> TRUE, value |-> e])
        EXCEPT !.document_id = d, !.chunk_index = j - 1]

\* what generate_embeddings_batch gives per text: an embedding, or the zero
\* vector when the provider failed (gemini.py line 248)
BatchEmbeddings == {<<1, 0>>, <<0, 0>>}

Exists(d) == documents[d] # "absent"

ChunksOf(st, d) == Filter(st, [i \in 1..Len(st) |-> st[i].document_id = d])

InitDocs ==
    /\ SearchIdle
    /\ CtxIdle
    /\ ChunkIdle
    /\ ChatIdle
    /\ DocsIdle
    /\ ConvIdle
    /\ TokIdle

\* upload_document_for_customer, service.py lines 97-124: the record is
\* created as pending and the background task is scheduled
Upload(d) ==
    /\ ing_pc[d] = "idle"
    /\ documents' = [documents EXCEPT ![d] = "pending"]
    /\ ing_pc' = [ing_pc EXCEPT ![d] = "scheduled"]
    /\ chunk_count' = [chunk_count EXCEPT ![d] = 0]
    /\ UNCHANGED <<searchVars, ctxVars, chunkVars, chatVars, tokVars, convVars,
                   ing_chunks, del_pc, del_seen>>

\* _process_document, lines 173-193: update_document_status raises when the
\* record is gone; no text or no chunks raises as well
StartProcessing(d) ==
    /\ ing_pc[d] = "scheduled"
    /\ IF ~Exists(d)
       THEN /\ ing_pc' = [ing_pc EXCEPT ![d] = "failing"]
            /\ UNCHANGED <<documents, ing_chunks>>
       ELSE \E n \in 0..MaxDocChunks :
              /\ documents' = [documents EXCEPT ![d] = "processing"]
              /\ ing_chunks' = [ing_chunks EXCEPT ![d] =
                                  [j \in 1..n |-> IngestedChunk(d, j, <<>>)]]
              /\ ing_pc' = [ing_pc EXCEPT ![d] = IF n = 0 THEN "failing" ELSE "embedding"]
    /\ UNCHANGED <<searchVars, ctxVars, chunkVars, chatVars, tokVars, convVars,
                   del_pc, del_seen, chunk_count>>

\* lines 200-218: generate_embeddings_batch returns, the embeddings are
\* attached
EmbeddingsReturn(d) ==
    /\ ing_pc[d] = "embedding"
    /\ \E e \in BatchEmbeddings :
          ing_chunks' = [ing_chunks EXCEPT ![d] =
                            [j \in 1..Len(ing_chunks[d]) |-> IngestedChunk(d, j, e)]]
    /\ ing_pc' = [ing_pc EXCEPT ![d] = "storing"]
    /\ UNCHANGED <<searchVars, ctxVars, chunkVars, chatVars, tokVars, convVars,
                   documents, del_pc, del_seen, chunk_count>>

\* line 222, firestore.py lines 96-122: the chunk records are written under
\* documents/<doc_id>/chunks, whether or not the document record exists
CreateChunks(d) ==
    /\ ing_pc[d] = "storing"
    /\ store' = store \o ing_chunks[d]
    /\ ing_pc' = [ing_pc EXCEPT ![d] = "stored"]
    /\ UNCHANGED <<searchVars, ctxVars, chunkVars, callVars, tokVars, convVars,
                   documents, ing_chunks,
                   del_pc, del_seen, chunk_count>>

\* line 226: update_document_status(doc_id, "ready"), which raises when the
\* record is gone
MarkReady(d) ==
    /\ ing_pc[d] = "stored"
    /\ IF Exists(d)
       THEN /\ documents' = [documents EXCEPT ![d] = "ready"]
            /\ chunk_count' = [chunk_count EXCEPT ![d] = Len(ing_chunks[d])]
            /\ ing_pc' = [ing_pc EXCEPT ![d] = "done"]
       ELSE /\ ing_pc' = [ing_pc EXCEPT ![d] = "failing"]
            /\ UNCHANGED <<documents, chunk_count>>
    /\ UNCHANGED <<searchVars, ctxVars, chunkVars, chatVars, tokVars, convVars,
                   ing_chunks, del_pc, del_seen>>

\* _process_document_background, lines 151-158: the status becomes failed;
\* an exception of this update is swallowed
MarkFailed(d) ==
    /\ ing_pc[d] = "failing"
    /\ documents' = [documents EXCEPT ![d] = IF Exists(d) THEN "failed" ELSE @]
    /\ ing_pc' = [ing_pc EXCEPT ![d] = "failed"]
    /\ UNCHANGED <<searchVars, ctxVars, chunkVars, chatVars, tokVars, convVars,
                   ing_chunks, del_pc, del_seen, chunk_count>>

\* DocumentService.delete_document, lines 244-245; the caller knows the id
\* from the upload
DeleteGet(d) ==
    /\ del_pc[d] \in {"idle", "done"}
    /\ ing_pc[d] # "idle"
    /\ del_pc' = [del_pc EXCEPT ![d] = IF Exists(d) THEN "file" ELSE "done"]
    /\ UNCHANGED <<searchVars, ctxVars, chunkVars, chatVars, tokVars, convVars,
                   documents, ing_pc,
                   ing_chunks, del_seen, chunk_count>>

\* line 247
DeleteFile(d) ==
    /\ del_pc[d] = "file"
    /\ del_pc' = [del_pc EXCEPT ![d] = "stream"]
    /\ UNCHANGED <<searchVars, ctxVars, chunkVars, chatVars, tokVars, convVars,
                   documents, ing_pc,
                   ing_chunks, del_seen, chunk_count>>

\* firestore.py line 86: the chunks of the document are listed
DeleteStream(d) ==
    /\ del_pc[d] = "stream"
    /\ del_seen' = [del_seen EXCEPT ![d] = ChunksOf(store, d)]
    /\ del_pc' = [del_pc EXCEPT ![d] = "batches"]
    /\ UNCHANGED <<searchVars, ctxVars, chunkVars, chatVars, tokVars, convVars,
                   documents, ing_pc, ing_chunks, chunk_count>>

\* firestore.py lines 87-91: the listed chunks are deleted
DeleteBatches(d) ==
    /\ del_pc[d] = "batches"
    /\ store' = Filter(store, [i \in 1..Len(store) |->
                                  \A k \in 1..Len(del_seen[d]) :
                                      del_seen[d][k].id # store[i].id])
    /\ del_pc' = [del_pc EXCEPT ![d] = "doc"]
    /\ UNCHANGED <<searchVars, ctxVars, chunkVars, callVars, tokVars, convVars,
                   documents, ing_pc,
                   ing_chunks, del_seen, chunk_count>>

\* firestore.py line 93
DeleteDoc(d) ==
    /\ del_pc[d] = "doc"
    /\ documents' = [documents EXCEPT ![d] = "absent"]
    /\ del_pc' = [del_pc EXCEPT ![d] = "done"]
    /\ chunk_count' = [chunk_count EXCEPT ![d] = 0]
    /\ UNCHANGED <<searchVars, ctxVars, chunkVars, chatVars, tokVars, convVars,
                   ing_pc, ing_chunks, del_seen>>

NextDocs ==
    \E d \in DocIds :
        \/ Upload(d)
        \/ StartProcessing(d)
        \/ EmbeddingsReturn(d)
        \/ CreateChunks(d)
        \/ MarkReady(d)
        \/ MarkFailed(d)
        \/ DeleteGet(d)
        \/ DeleteFile(d)
        \/ DeleteStream(d)
        \/ DeleteBatches(d)
        \/ DeleteDoc(d)

SpecDocs == InitDocs /\ [][NextDocs]_vars

\* C19: a chunk goes only with its document and always goes with it: under
\* every interleaving of ingestion and delete_document, once delete_document
\* has completed for a document the store holds no chunk of that document.
C19_NoChunkAfterDelete ==
    \A d \in DocIds :
        del_pc[d] = "done" => ChunksOf(store, d) = <<>>

-----------------------------------------------------------------------------
(* _tokenize: src/src/features/chat/retrieval.py lines 23-34 *)

\* _STOPWORDS, each word as its characters
STOPWORDS ==
    {<<"a">>, <<"v">>, <<"s">>, <<"n", "a">>, <<"t", "o">>, <<"j", "e">>,
     <<"z">>, <<"o">>, <<"k">>, <<"i">>, <<"s", "e">>, <<"d", "o">>,
     <<"z", "a">>, <<"o", "d">>, <<"p", "o">>, <<"p", "r", "o">>,
     <<"a", "l", "e">>, <<"b", "y">>, <<"t", "a", "k">>, <<"s", "i">>,
     <<"c", "o">>, <<"j", "a", "k">>, <<"z", "e">>, <<"v", "e">>,
     <<"t", "h", "e">>, <<"i", "s">>, <<"a", "n", "d">>, <<"o", "f">>,
     <<"i", "n">>, <<"f", "o", "r">>, <<"i", "t">>}

\* the characters \w matches, among those the texts are made of
WordChars == {"a", "o", "t", "T", "_"}

\* str.lower() on one character
LowerChar(c) == IF c = "T" THEN "t" ELSE c

Lower(t) == [i \in 1..Len(t) |-> LowerChar(t[i])]

\* \b before position p: a word character with none before it
WordStart(t, p) == t[p] \in WordChars /\ (p = 1 \/ t[p - 1] \notin WordChars)

\* \w+ is greedy: the last index of the run of word characters from p
RECURSIVE WordRunEnd(_, _)
WordRunEnd(t, p) ==
    IF p < Len(t) /\ t[p + 1] \in WordChars THEN WordRunEnd(t, p + 1) ELSE p

\* re.findall(r"\b\w+\b", t)
RECURSIVE FindWordsFrom(_, _)
FindWordsFrom(t, p) ==
    IF p > Len(t) THEN <<>>
    ELSE IF WordStart(t, p)
    THEN <<SubSeq(t, p, WordRunEnd(t, p))>> \o FindWordsFrom(t, WordRunEnd(t, p) + 1)
    ELSE FindWordsFrom(t, p + 1)

FindWords(t) == FindWordsFrom(t, 1)

Kept_AnyLength(w) == w \notin STOPWORDS

\* line 34: w not in _STOPWORDS and len(w) > 1
Kept(w) == w \notin STOPWORDS /\ Len(w) > 1

tokenize(text) ==
    LET words == FindWords(Lower(text))
    IN  Filter(words, [i \in 1..Len(words) |-> Kept(words[i])])

TokChars == {"a", "o", "t", "T", "_", " ", "."}

TokTexts == UNION {[1..n -> TokChars] : n \in 0..MaxTokChars}

InitTok ==
    /\ SearchIdle
    /\ CtxIdle
    /\ ChunkIdle
    /\ ChatIdle
    /\ DocsIdle
    /\ ConvIdle
    /\ tok_text \in TokTexts
    /\ tok_calls = 0
    /\ tok_first = <<>>
    /\ tok_out = <<>>

Tokenize ==
    /\ tok_calls < MaxTokCalls
    /\ tok_out' = tokenize(tok_text)
    /\ tok_first' = IF tok_calls = 0 THEN tokenize(tok_text) ELSE tok_first
    /\ tok_calls' = tok_calls + 1
    /\ UNCHANGED <<searchVars, ctxVars, chunkVars, chatVars, docVars, convVars,
                   tok_text>>

NextTok == Tokenize

SpecTok == InitTok /\ [][NextTok]_vars

\* the maximal runs of word characters of the text, as index pairs
WordRuns ==
    {<<a, b>> \in (1..Len(tok_text)) \X (1..Len(tok_text)) :
        /\ a <= b
        /\ \A i \in a..b : tok_text[i] \notin {" ", "."}
        /\ a = 1 \/ tok_text[a - 1] \in {" ", "."}
        /\ b = Len(tok_text) \/ tok_text[b + 1] \in {" ", "."}}

LoweredRun(r) == Lower(SubSeq(tok_text, r[1], r[2]))

\* the runs that make a token: longer than one character, not a stopword
TokenRuns ==
    {r \in WordRuns : r[2] > r[1] /\ LoweredRun(r) \notin STOPWORDS}

\* C20: tokenize is deterministic and returns, in input order, exactly the
\* lowercased words of the text that are no stopword and longer than one
\* character; the empty text, and a text of stopwords and one-character words
\* only, give the empty sequence.
C20_Tokens ==
    tok_calls > 0 =>
        /\ tok_out = tok_first
        /\ Len(tok_out) = Cardinality(TokenRuns)
        /\ \A r \in TokenRuns :
              tok_out[Cardinality({q \in TokenRuns : q[1] <= r[1]})] = LoweredRun(r)
        /\ (\A r \in WordRuns : r[1] = r[2] \/ LoweredRun(r) \in STOPWORDS)
              => tok_out = <<>>

\* "To aT": a stopword after lowering, then a token with an upper-case
\* letter; tokenized twice
C20_Witness ==
    /\ tok_calls = 2
    /\ tok_text = <<"T", "o", " ", "a", "T">>
    /\ tok_out = <<<<"a", "t">>>>

-----------------------------------------------------------------------------
(* Properties of the fusion *)

\* 1-based position of entry j when the entries are put in descending order
\* of their keys, entries of equal key staying in input order
RankOf(keys, j) ==
    1 + Cardinality({i \in 1..Len(keys) :
                        keys[i] > keys[j] \/ (keys[i] = keys[j] /\ i < j)})

VectorKeys == [j \in 1..Len(scored_chunks) |-> scored_chunks[j].vector_score]

Bm25Keys == [j \in 1..Len(scored_chunks) |-> scored_chunks[j].bm25_score]

\* 1/(60 + r) in the units of the fused score
Contribution(r) == RRFScale \div (K + r)

\* no scored candidate has an undefined similarity
AllSimilaritiesDefined ==
    \A j \in 1..Len(scored_chunks) : scored_chunks[j].vector_score # NaN

\* C21: in hybrid mode the fused score of every scored candidate is
\* 1/(60 + rv) + 1/(60 + rb), rv and rb being its 1-based positions in the
\* descending vector and BM25 orders with equal scores in input order; each
\* candidate holds its own sum.
C21_FusedScore ==
    HybridMode =>
        \A j \in 1..Len(scored_chunks) :
            scored_chunks[j].score =
                Contribution(RankOf(VectorKeys, j)) + Contribution(RankOf(Bm25Keys, j))


\* C21 on candidate sets whose similarities are all defined
C21_FusedScoreDefined ==
    (HybridMode /\ AllSimilaritiesDefined) =>
        \A j \in 1..Len(scored_chunks) :
            scored_chunks[j].score =
                Contribution(RankOf(VectorKeys, j)) + Contribution(RankOf(Bm25Keys, j))

\* 1-based position of scored chunk j in a ranking the call produced
PlaceIn(ranked, j) == CHOOSE r \in 1..Len(ranked) : ranked[r] = j

Rv(j) == PlaceIn(vector_ranked, j)

Rb(j) == PlaceIn(bm25_ranked, j)

\* C22: a chunk ranked first in both rankings has a strictly higher fused
\* score than every other chunk, and than any chunk that is first in one
\* ranking only can have; a chunk ranked no worse than another in both
\* rankings never has the lower fused score.
C22_RankMonotone ==
    HybridMode =>
        \A a, b \in 1..Len(scored_chunks) :
            /\ (a # b /\ Rv(a) = 1 /\ Rb(a) = 1)
                  => scored_chunks[a].score > scored_chunks[b].score
            /\ ((Rv(b) = 1) # (Rb(b) = 1))
                  => scored_chunks[b].score < 2 * Contribution(1)
            /\ (Rv(a) <= Rv(b) /\ Rb(a) <= Rb(b))
                  => scored_chunks[a].score >= scored_chunks[b].score

\* three scored chunks: one first in both rankings, the other two ranked in
\* opposite orders by the two rankings
C22_Witness ==
    /\ HybridMode
    /\ Len(scored_chunks) = 3
    /\ \E a, b, c \in 1..3 :
          /\ Rv(a) = 1 /\ Rb(a) = 1
          /\ Rv(b) = 2 /\ Rb(b) = 3
          /\ Rv(c) = 3 /\ Rb(c) = 2
          /\ scored_chunks[a].score > scored_chunks[b].score
          /\ scored_chunks[b].score = scored_chunks[c].score

-----------------------------------------------------------------------------
(* Properties of the calls search makes *)

\* the search of caller p is over: it returned or raised
SearchOver(p) == s_pc[p] \in {"generating", "responded", "aborted"}

\* scoring started: it ended with a result or raised
ScoringStarted(p) == SearchEnded(p)

\* C23 as stated: every search invocation calls the embedding provider
\* exactly once and the chunk store exactly once, scoring starts only after
\* both calls returned, and a failure of either call reaches the caller.
C23_ExactlyOnceEach ==
    \A p \in Callers :
        SearchOver(p) =>
            /\ s_issued[p].embedding = 1
            /\ s_issued[p].store = 1
            /\ ScoringStarted(p) => s_done[p] = [embedding |-> 1, store |-> 1]
            /\ SearchFailed(p) => s_pc[p] = "aborted"

\* C23 amended: a search invocation calls the embedding provider exactly
\* once and the chunk store at most once, never again after a failure; the
\* store is called only after the embedding call returned, so a failed
\* embedding call leaves the store uncalled; scoring starts only after both
\* calls returned, and a failure of either call reaches the caller.
C23_OnceAndInOrder ==
    \A p \in Callers :
        /\ s_issued[p].embedding <= 1
        /\ s_issued[p].store = s_done[p].embedding
        /\ s_done[p].store <= s_issued[p].store
        /\ SearchOver(p) =>
              /\ s_issued[p].embedding = 1
              /\ ScoringStarted(p) => s_done[p] = [embedding |-> 1, store |-> 1]
              /\ SearchFailed(p) => s_pc[p] = "aborted" /\ s_returned[p] = <<>>
              /\ s_failure[p] = "embedding" => s_issued[p].store = 0
              /\ s_failure[p] = "store" => s_done[p] = [embedding |-> 1, store |-> 0]

\* one search stopped by the provider, the other by the store
C23_Witness ==
    /\ s_failure[1] = "embedding"
    /\ s_failure[2] = "store"
    /\ s_issued[1] = [embedding |-> 1, store |-> 0]
    /\ s_issued[2] = [embedding |-> 1, store |-> 1]
    /\ s_pc[1] = "aborted"
    /\ s_pc[2] = "aborted"

-----------------------------------------------------------------------------
(* Properties of the overlap of the sentence chunker *)

\* length of the last m sentences up to unit b, each with its joining space
CarriedLength(b, m) ==
    LET RECURSIVE Sum(_)
        Sum(k) == IF k = 0 THEN 0 ELSE Len(Units[b - k + 1]) + 1 + Sum(k - 1)
    IN  Sum(m)

\* how many trailing sentences of a chunk holding units a..b are carried
\* over: the fewest whose length reaches the overlap, all of them if none do
Carried(a, b) ==
    LET all == b - a + 1
        enough == {m \in 0..all : CarriedLength(b, m) >= ck_overlap}
    IN  IF enough = {} THEN all
        ELSE CHOOSE m \in enough : \A k \in enough : m <= k

\* chunk c is exactly the units a..b joined by one space
HoldsJoined(c, a, b) == ck_chunks[c].text = Join(SubSeq(Units, a, b), <<" ">>)

\* The unit ranges <<a, b>> chunk k can stand for when the first chunk starts
\* at the first unit and every later chunk starts with the sentences carried
\* over from the chunk before it and adds at least one new sentence.
RECURSIVE Ranges(_)
Ranges(k) ==
    IF k = 1
    THEN {<<1, b>> : b \in {x \in 1..Len(Units) : HoldsJoined(1, 1, x)}}
    ELSE UNION {{<<r[2] + 1 - Carried(r[1], r[2]), b>> :
                    b \in {x \in (r[2] + 1)..Len(Units) :
                              HoldsJoined(k, r[2] + 1 - Carried(r[1], r[2]), x)}}
                  : r \in Ranges(k - 1)}

\* C24: in the sentence chunker every chunk after the first begins with
\* whole trailing sentences of the chunk before it, taken from its end
\* backwards until their accumulated length reaches the overlap or the chunk
\* is used up; nothing but whole sentences is carried, and with overlap 0
\* consecutive chunks share no sentence.
C24_WholeSentenceOverlap ==
    (ck_pc = "done" /\ ck_class = "sentence" /\ ck_chunks # <<>>) =>
        \E r \in Ranges(Len(ck_chunks)) : r[2] = Len(Units)

\* "A. A. A." with size 6 and overlap 3: the second chunk starts with the
\* last sentence of the first
C24_Witness ==
    /\ ck_pc = "done"
    /\ ck_class = "sentence"
    /\ ck_size = 6
    /\ ck_overlap = 3
    /\ ck_chunks # <<>>
    /\ Ranges(Len(ck_chunks)) = {<<2, 3>>}
    /\ Carried(1, 2) = 1

-----------------------------------------------------------------------------
(* Properties of the sizes of the semantic chunker *)

\* the chunk is one unit of the input and nothing else
SingleUnit(c) == \E u \in 1..Len(Units) : ck_chunks[c].text = Units[u]

\* C25: in the semantic chunker every chunk built from more than one unit
\* (several paragraphs, or several sentences of an oversized paragraph) is at
\* most max size long; only a chunk that is a single sentence or paragraph
\* may be longer.
C25_MultiUnitWithinMax ==
    (ck_pc = "done" /\ ck_class = "semantic") =>
        \A c \in 1..Len(ck_chunks) :
            ~SingleUnit(c) => Len(ck_chunks[c].text) <= ck_size

-----------------------------------------------------------------------------
(* Properties of hybrid search against vector-only ranking *)

\* every scored chunk got the same BM25 score
AllBm25Equal ==
    \A i, j \in 1..Len(scored_chunks) :
        scored_chunks[i].bm25_score = scored_chunks[j].bm25_score

\* what the same call returns when ranking by vector similarity alone
VectorOnlyReturned ==
    search(chunks, query_embedding, <<>>, min_score, top_k, FALSE).returned

IdsInOrder(rs) == [j \in 1..Len(rs) |-> rs[j].id]

\* C26: in hybrid mode, when all candidates have the same BM25 score, search
\* returns the same chunks in the same order as vector-only ranking would.
C26_EqualBm25IsVectorOnly ==
    (HybridMode /\ AllBm25Equal) =>
        IdsInOrder(returned) = IdsInOrder(VectorOnlyReturned)

-----------------------------------------------------------------------------
(* Properties of the score of a hybrid result *)

\* index among the scored chunks of the chunk a result stands for
ScoredIndex(r) == CHOOSE i \in 1..Len(scored_chunks) : scored_chunks[i].id = r.id

\* the score, in units of the fused score, is below the threshold, which is
\* in units of the similarity
BelowMinScore(r) == r.score * Scale < min_score * RRFScale

\* C27: in hybrid mode with N scored candidates the score of every returned
\* result is its fused score, the sum of its two reciprocal ranks, and lies
\* in [2/(60+N), 2/61].
C27_HybridScoreRange ==
    HybridMode =>
        \A j \in 1..Len(returned) :
            LET i == ScoredIndex(returned[j])
                N == Len(scored_chunks)
            IN  /\ returned[j].score = Contribution(Rv(i)) + Contribution(Rb(i))
                /\ returned[j].score >= 2 * Contribution(N)
                /\ returned[j].score <= 2 * Contribution(1)

\* a hybrid call with threshold 0.5 returns a result whose score is neither
\* its vector similarity nor at least the threshold: its similarity passes
\* the threshold, its score is the upper bound 2/61
C27_Witness ==
    /\ HybridMode
    /\ min_score = Scale \div 2
    /\ returned # <<>>
    /\ LET i == ScoredIndex(returned[1])
       IN  /\ Ge(scored_chunks[i].vector_score, min_score)
           /\ returned[1].score = 2 * Contribution(1)
           /\ BelowMinScore(returned[1])
           /\ returned[1].score * Scale # scored_chunks[i].vector_score * RRFScale

-----------------------------------------------------------------------------
(* Ingestion with failing calls, and the web scrape:                        *)
(* features/documents/service.py, features/scraper/service.py.  Upload to   *)
(* MarkFailed above are the steps of upload_document and of                 *)
(* upload_document_for_customer when every call returns.                    *)

\* _process_document, lines 200-232: generate_embeddings_batch,
\* create_chunks before its batch is committed, or update_document_status
\* raises; the exception reaches the handler of lines 66-68, 131-136 or
\* 151-158
ProcessingRaises(d) ==
    /\ ing_pc[d] \in {"embedding", "storing", "stored"}
    /\ ing_pc' = [ing_pc EXCEPT ![d] = "failing"]
    /\ UNCHANGED <<searchVars, ctxVars, chunkVars, chatVars, tokVars, convVars,
                   documents, ing_chunks, del_pc, del_seen, chunk_count>>

\* lines 67, 135, 156: update_document_status(doc_id, "failed") raises as
\* well; the status stays what it was
MarkFailedRaises(d) ==
    /\ ing_pc[d] = "failing"
    /\ ing_pc' = [ing_pc EXCEPT ![d] = "failed"]
    /\ UNCHANGED <<searchVars, ctxVars, chunkVars, chatVars, tokVars, convVars,
                   documents, ing_chunks, del_pc, del_seen, chunk_count>>

\* _scrape_and_store_for_customer, scraper/service.py lines 197-225: the
\* record is created as processing, the content is chunked, no chunks raises
ScrapeStart(d) ==
    /\ ing_pc[d] = "idle"
    /\ documents' = [documents EXCEPT ![d] = "processing"]
    /\ chunk_count' = [chunk_count EXCEPT ![d] = 0]
    /\ \E n \in 0..MaxDocChunks :
          /\ ing_chunks' = [ing_chunks EXCEPT ![d] =
                              [j \in 1..n |-> IngestedChunk(d, j, <<>>)]]
          /\ ing_pc' = [ing_pc EXCEPT ![d] =
                           IF n = 0 THEN "raised" ELSE "scrape_embedding"]
    /\ UNCHANGED <<searchVars, ctxVars, chunkVars, chatVars, tokVars, convVars,
                   del_pc, del_seen>>

\* lines 227-241: generate_embeddings_batch returns, the batch is filled
ScrapeEmbeddingsReturn(d) ==
    /\ ing_pc[d] = "scrape_embedding"
    /\ \E e \in BatchEmbeddings :
          ing_chunks' = [ing_chunks EXCEPT ![d] =
                            [j \in 1..Len(ing_chunks[d]) |-> IngestedChunk(d, j, e)]]
    /\ ing_pc' = [ing_pc EXCEPT ![d] = "scrape_committing"]
    /\ UNCHANGED <<searchVars, ctxVars, chunkVars, chatVars, tokVars, convVars,
                   documents, del_pc, del_seen, chunk_count>>

\* line 243: batch.commit()
ScrapeCommit(d) ==
    /\ ing_pc[d] = "scrape_committing"
    /\ store' = store \o ing_chunks[d]
    /\ ing_pc' = [ing_pc EXCEPT ![d] = "scrape_committed"]
    /\ UNCHANGED <<searchVars, ctxVars, chunkVars, callVars, tokVars, convVars,
                   documents, ing_chunks, del_pc, del_seen, chunk_count>>

\* lines 245-249: doc_ref.update
ScrapeMarkReady(d) ==
    /\ ing_pc[d] = "scrape_committed"
    /\ documents' = [documents EXCEPT ![d] = "ready"]
    /\ chunk_count' = [chunk_count EXCEPT ![d] = Len(ing_chunks[d])]
    /\ ing_pc' = [ing_pc EXCEPT ![d] = "scrape_done"]
    /\ UNCHANGED <<searchVars, ctxVars, chunkVars, chatVars, tokVars, convVars,
                   ing_chunks, del_pc, del_seen>>

\* lines 228, 243 or 245 raise; the caller, lines 168-176, records the error
\* of the url and goes on: nothing writes the status
ScrapeRaises(d) ==
    /\ ing_pc[d] \in {"scrape_embedding", "scrape_committing", "scrape_committed"}
    /\ ing_pc' = [ing_pc EXCEPT ![d] = "raised"]
    /\ UNCHANGED <<searchVars, ctxVars, chunkVars, chatVars, tokVars, convVars,
                   documents, ing_chunks, del_pc, del_seen, chunk_count>>

\* a step of the ingestion of document d once it has started
IngestStep(d) ==
    \/ StartProcessing(d)
    \/ EmbeddingsReturn(d)
    \/ CreateChunks(d)
    \/ MarkReady(d)
    \/ ProcessingRaises(d)
    \/ MarkFailed(d)
    \/ MarkFailedRaises(d)
    \/ ScrapeEmbeddingsReturn(d)
    \/ ScrapeCommit(d)
    \/ ScrapeMarkReady(d)
    \/ ScrapeRaises(d)

NextIngest ==
    \E d \in DocIds :
        \/ Upload(d)
        \/ ScrapeStart(d)
        \/ IngestStep(d)

\* every call an ingestion awaits returns or raises
SpecIngest ==
    InitDocs /\ [][NextIngest]_vars /\ \A d \in DocIds : WF_vars(IngestStep(d))

\* the chat calls of one caller
NextSearch ==
    \E p \in {1} :
        \/ ChatStart(p)
        \/ EmbeddingReturns(p)
        \/ EmbeddingFails(p)
        \/ ChunksReturn(p)
        \/ ChunkStoreFails(p)
        \/ Generate(p)

NextIngestSearch == NextIngest \/ NextSearch

SpecIngestSearch == InitDocs /\ [][NextIngestSearch]_vars

\* the search of caller p returns in this step
SearchReturns(p) == s_pc[p] = "fetching" /\ s_pc'[p] = "generating"

\* C28: under every interleaving of ingestion and search, search returns
\* only chunks of documents whose status is ready at that moment, none of a
\* document still processing or failed.
C28_OnlyReadyReturned ==
    [][\A p \in Callers :
          SearchReturns(p) =>
              \A j \in 1..Len(s_returned'[p]) :
                  documents'[s_returned'[p][j].document_id] = "ready"]_vars

\* C29: every started ingestion eventually leaves its document ready or
\* failed, and a document is ready only when all its chunks are stored and
\* chunk_count is their number.
C29_IngestionEnds ==
    /\ \A d \in DocIds :
          (ing_pc[d] # "idle") ~> (documents[d] \in {"ready", "failed"})
    /\ [](\A d \in DocIds :
             documents[d] = "ready" =>
                 /\ ing_chunks[d] # <<>>
                 /\ ChunksOf(store, d) = ing_chunks[d]
                 /\ chunk_count[d] = Len(ing_chunks[d]))

-----------------------------------------------------------------------------
(* Conversations of a session: features/chat/memory.py lines 20-45,         *)
(* core/firestore.py lines 143-188, features/chat/service.py lines 59-175.  *)
(* Every call to the store is one step; the steps of chat requests          *)
(* interleave.                                                              *)

\* session ids the clients send
SessionIds == {"s", "t"}

\* ids of the conversation records of a session
ConversationsOf(convs, session_id) ==
    {k \in 1..Len(convs) : convs[k] = session_id}

\* firestore.py lines 168-183
Message(conversation_id, role) ==
    [conversation_id |-> conversation_id, role |-> role]

InitConv ==
    /\ SearchIdle
    /\ CtxIdle
    /\ ChunkIdle
    /\ ChatIdle
    /\ DocsIdle
    /\ TokIdle
    /\ ConvIdle

\* service.py lines 59-64: the request carries a session id
ChatBegins(p) ==
    /\ cv_pc[p] = "idle"
    /\ \E session_id \in SessionIds :
          cv_session' = [cv_session EXCEPT ![p] = session_id]
    /\ cv_pc' = [cv_pc EXCEPT ![p] = "looking"]
    /\ UNCHANGED <<searchVars, ctxVars, chunkVars, chatVars, docVars, tokVars,
                   conversations, messages, cv_conversation>>

\* memory.py lines 36-39, firestore.py lines 156-166: the query returns one
\* conversation of the session, whichever the store lists first, or none
GetConversation(p) ==
    /\ cv_pc[p] = "looking"
    /\ LET found == ConversationsOf(conversations, cv_session[p])
       IN  IF found # {}
           THEN /\ \E k \in found :
                      cv_conversation' = [cv_conversation EXCEPT ![p] = k]
                /\ cv_pc' = [cv_pc EXCEPT ![p] = "history"]
           ELSE /\ cv_pc' = [cv_pc EXCEPT ![p] = "creating"]
                /\ UNCHANGED cv_conversation
    /\ UNCHANGED <<searchVars, ctxVars, chunkVars, chatVars, docVars, tokVars,
                   conversations, messages, cv_session>>

\* memory.py lines 42-45, firestore.py lines 143-154: a record with a new id
CreateConversation(p) ==
    /\ cv_pc[p] = "creating"
    /\ conversations' = Append(conversations, cv_session[p])
    /\ cv_conversation' = [cv_conversation EXCEPT ![p] = Len(conversations) + 1]
    /\ cv_pc' = [cv_pc EXCEPT ![p] = "history"]
    /\ UNCHANGED <<searchVars, ctxVars, chunkVars, chatVars, docVars, tokVars,
                   messages, cv_session>>

\* service.py line 87: the history of the conversation is read
GetHistory(p) ==
    /\ cv_pc[p] = "history"
    /\ cv_pc' = [cv_pc EXCEPT ![p] = "user_message"]
    /\ UNCHANGED <<searchVars, ctxVars, chunkVars, chatVars, docVars, tokVars,
                   conversations, messages, cv_session, cv_conversation>>

\* service.py lines 144-148
AddUserMessage(p) ==
    /\ cv_pc[p] = "user_message"
    /\ messages' = Append(messages, Message(cv_conversation[p], "user"))
    /\ cv_pc' = [cv_pc EXCEPT ![p] = "assistant_message"]
    /\ UNCHANGED <<searchVars, ctxVars, chunkVars, chatVars, docVars, tokVars,
                   conversations, cv_session, cv_conversation>>

\* service.py lines 171-175
AddAssistantMessage(p) ==
    /\ cv_pc[p] = "assistant_message"
    /\ messages' = Append(messages, Message(cv_conversation[p], "assistant"))
    /\ cv_pc' = [cv_pc EXCEPT ![p] = "done"]
    /\ UNCHANGED <<searchVars, ctxVars, chunkVars, chatVars, docVars, tokVars,
                   conversations, cv_session, cv_conversation>>

NextConv ==
    \E p \in Chats :
        \/ ChatBegins(p)
        \/ GetConversation(p)
        \/ CreateConversation(p)
        \/ GetHistory(p)
        \/ AddUserMessage(p)
        \/ AddAssistantMessage(p)

SpecConv == InitConv /\ [][NextConv]_vars

\* the request knows its conversation
HasConversation(p) == cv_conversation[p] # 0

\* C30: after any interleaving of chat requests with the same session_id at
\* most one conversation record exists for that session_id, so that all
\* messages of the session are stored under, and its history is read from,
\* a single conversation.
C30_OneConversationPerSession ==
    /\ \A session_id \in SessionIds :
          Cardinality(ConversationsOf(conversations, session_id)) <= 1
    /\ \A p, q \in Chats :
          (HasConversation(p) /\ HasConversation(q)
              /\ cv_session[p] = cv_session[q])
              => cv_conversation[p] = cv_conversation[q]
    /\ \A i, j \in 1..Len(messages) :
          conversations[messages[i].conversation_id]
                = conversations[messages[j].conversation_id]
              => messages[i].conversation_id = messages[j].conversation_id

====
